---- MODULE Spec2Model ----
(***************************************************************************)
(* G-code interpreter and waypoint-to-servo pipeline of the SCARA arm      *)
(* controller (Final_Code/gcode_parser.py, kinematics.py, sd_exporter.py,  *)
(* config.py).                                                             *)
(*                                                                         *)
(* Numbers.  The program computes with Python floats (binary floating      *)
(* point, every operation rounded to nearest, ties to even).  The model    *)
(* keeps that arithmetic at a reduced width: a number is an integer count  *)
(* of 2^-FracBits inch (or degree, or second) that has at most MantBits    *)
(* significant bits, and every operation rounds its exact result to the    *)
(* nearest such number, ties to even.  So a + (b - a) need not be b, as in *)
(* the program.                                                            *)
(***************************************************************************)
EXTENDS Integers, Sequences, FiniteSets, TLC

\* ------------------------------------------------------------ bounds
\* significant bits kept by an arithmetic operation
MantBits == 6
\* binary digits after the point
FracBits == 6
\* execute_command calls made on one parser in the parser specification
MaxCommands == 3
\* lines of the text given to process_gcode
MaxLines == 2
\* characters of a line given to parse_line alone
MaxLen == 5
\* parameter tokens of a line given to parse_line alone
MaxTokens == 3
\* largest coordinate, in inches, of a point given to the kinematics
MaxCoord == 13

\* --------------------------------------------------- float arithmetic
Pow2(n) == 2 ^ n

Unit == Pow2(FracBits)

Abs(n) == IF n < 0 THEN -n ELSE n

Sign(n) == IF n < 0 THEN -1 ELSE 1

\* the exponent of a/den (a >= 0, den > 0): the least k for which a/den,
\* counted in steps of 2^k, takes at most MantBits bits
Exponent(a, den) ==
    CHOOSE k \in 0..24 : /\ a < den * Pow2(MantBits + k)
                         /\ k = 0 \/ a >= den * Pow2(MantBits + k - 1)

\* the quotient m of a division that left the remainder r of step, rounded
\* to nearest, ties to even
HalfEven(m, r, step) ==
    IF 2 * r > step \/ (2 * r = step /\ m % 2 = 1) THEN m + 1 ELSE m

\* a / step (a >= 0) rounded to a whole number
RoundTo(a, step) == HalfEven(a \div step, a % step, step)

\* a / den (a >= 0) rounded to a multiple of q
RndMag(a, den, q) == RoundTo(a, den * q) * q

\* The exact rational num/den (den > 0), in units, rounded to MantBits
\* significant bits, to nearest, ties to even.
RndRat(num, den) == Sign(num) * RndMag(Abs(num), den, Pow2(Exponent(Abs(num), den)))

Rnd(n) == RndRat(n, 1)

FAdd(a, b) == Rnd(a + b)

FSub(a, b) == Rnd(a - b)

FMul(a, b) == RndRat(a * b, Unit)

FDiv(a, b) == IF b < 0 THEN RndRat(-(a * Unit), -b) ELSE RndRat(a * Unit, b)

FromInt(i) == Rnd(i * Unit)

\* float("<n/10>"): a decimal literal with one digit after the point
FromTenths(n) == RndRat(n * Unit, 10)

FMin(a, b) == IF b < a THEN b ELSE a

FMax(a, b) == IF b > a THEN b ELSE a

\* largest r in lo..hi with r*r <= x  (lo*lo <= x < (hi+1)*(hi+1))
RECURSIVE ISqrtIn(_, _, _)
ISqrtIn(x, lo, hi) ==
    IF lo = hi THEN lo
    ELSE LET mid == (lo + hi + 1) \div 2
         IN  IF mid * mid <= x THEN ISqrtIn(x, mid, hi) ELSE ISqrtIn(x, lo, mid - 1)

ISqrt(x) == ISqrtIn(x, 0, 46340)

\* math.sqrt: the square root of v (v >= 0), correctly rounded
\* whether the root of x, which lies in [r0, r0 + 1) and between the
\* neighbouring numbers lo and lo + q, is rounded up to lo + q: it is
\* compared with the midpoint lo + q/2
SqrtUp(x, r0, lo, q) ==
    IF q = 1 THEN x > r0 * r0 + r0
    ELSE \/ r0 > lo + q \div 2
         \/ r0 = lo + q \div 2 /\ (x > r0 * r0 \/ (lo \div q) % 2 = 1)

SqrtPick(x, r0, lo, q) == IF SqrtUp(x, r0, lo, q) THEN lo + q ELSE lo

SqrtAt(x, r0, q) == SqrtPick(x, r0, (r0 \div q) * q, q)

SqrtOf(x, r0) == SqrtAt(x, r0, Pow2(Exponent(r0, 1)))

FSqrt(v) == SqrtOf(v * Unit, ISqrt(v * Unit))

\* int(x) of a float: truncation toward zero
FInt(v) == IF v < 0 THEN -((-v) \div Unit) ELSE v \div Unit

\* ------------------------------------------------------- trigonometry
\* The math library's functions are computed on angles in radians held
\* in steps of 1/TrigScale, then rounded like every other operation.
TrigScale == Pow2(10)

\* pi and pi/2 in steps of 1/TrigScale (355/113 = 3.1415929)
PiT == (355 * TrigScale + 56) \div 113

HalfPiT == (355 * TrigScale + 113) \div 226

\* Taylor polynomials on [0, pi/2]; argument and value in 1/TrigScale
SinQ(a) ==
    LET a2 == (a * a) \div TrigScale
        t7 == TrigScale - a2 \div 42
        t5 == TrigScale - (a2 * t7) \div (20 * TrigScale)
        t3 == TrigScale - (a2 * t5) \div (6 * TrigScale)
    IN  (a * t3) \div TrigScale

CosQ(a) ==
    LET a2 == (a * a) \div TrigScale
        t8 == TrigScale - a2 \div 56
        t6 == TrigScale - (a2 * t8) \div (30 * TrigScale)
        t4 == TrigScale - (a2 * t6) \div (12 * TrigScale)
    IN  TrigScale - (a2 * t4) \div (2 * TrigScale)

\* sine and cosine of any angle a (in 1/TrigScale), value in 1/TrigScale
\* cosine and sine of h in [0, pi]
CosH(h) == IF h > HalfPiT THEN -CosQ(PiT - h) ELSE CosQ(h)

SinH(h) == IF h > HalfPiT THEN SinQ(PiT - h) ELSE SinQ(h)

\* cosine and sine of r in [0, 2 pi)
CosR(r) == IF r > PiT THEN CosH(2 * PiT - r) ELSE CosH(r)

SinR(r) == IF r > PiT THEN -SinH(r - PiT) ELSE SinH(r)

CosT(a) == CosR(Abs(a) % (2 * PiT))

SinT(a) == Sign(a) * SinR(Abs(a) % (2 * PiT))

\* a float angle (units) in steps of 1/TrigScale
ToTrig(a) == (a * TrigScale) \div Unit

\* math.cos, math.sin
FCos(a) == RndRat(CosT(ToTrig(a)) * Unit, TrigScale)

FSin(a) == RndRat(SinT(ToTrig(a)) * Unit, TrigScale)

\* the angle in lo..hi (1/TrigScale, within [0, pi/2]) where
\* ax * sin = ay * cos, i.e. atan(ay / ax), by bisection
RECURSIVE AtanIn(_, _, _, _)
AtanIn(ay, ax, lo, hi) ==
    IF lo >= hi THEN lo
    ELSE LET mid == (lo + hi + 1) \div 2
         IN  IF ax * SinQ(mid) <= ay * CosQ(mid)
             THEN AtanIn(ay, ax, mid, hi)
             ELSE AtanIn(ay, ax, lo, mid - 1)

\* math.atan2(y, x), in 1/TrigScale
Atan2T(y, x) ==
    IF x = 0 /\ y = 0 THEN 0
    ELSE IF x < 0 THEN Sign(y) * (PiT - AtanIn(Abs(y), Abs(x), 0, HalfPiT))
    ELSE Sign(y) * AtanIn(Abs(y), Abs(x), 0, HalfPiT)

FAtan2(y, x) == RndRat(Atan2T(y, x) * Unit, TrigScale)

\* the angle in lo..hi (1/TrigScale, within [0, pi]) whose cosine is c
RECURSIVE AcosIn(_, _, _)
AcosIn(c, lo, hi) ==
    IF lo >= hi THEN lo
    ELSE LET mid == (lo + hi + 1) \div 2
         IN  IF CosT(mid) >= c THEN AcosIn(c, mid, hi) ELSE AcosIn(c, lo, mid - 1)

\* math.acos(c) for -1 <= c <= 1
FAcos(c) == RndRat(AcosIn((c * TrigScale) \div Unit, 0, PiT) * Unit, TrigScale)

\* 2 * math.pi
TWO_PI == RndRat(710 * Unit, 113)

\* math.degrees(a) = a * (180 / pi);  math.radians(d) = d * (pi / 180)
FDegrees(a) == FMul(a, RndRat(180 * 113 * Unit, 355))

\* ------------------------------------------------------ configuration
ARM_L1 == FromInt(6)

ARM_L2 == FromInt(6)

HOME_X == FromInt(6)

HOME_Y == FromInt(6)

SERVO1_MIN == 0

SERVO1_MAX == 180

SERVO2_MIN == 0

SERVO2_MAX == 180

SERVO1_HOME == 75

SERVO2_HOME == 120

SERVO1_OFFSET == 0

SERVO2_OFFSET == 0

DEFAULT_FEED_RATE == FromInt(2)

MAX_FEED_RATE == FromInt(10)

ARC_SEGMENTS_PER_INCH == 10

LINE_SEGMENTS_PER_INCH == 5

DEFAULT_UNITS == "inches"

\* ------------------------------------------------------- interpolators
IMax(a, b) == IF b > a THEN b ELSE a

\* the list the loop "for i in range(num_segments + 1): waypoints.append(..)"
\* builds, element k of it being f[k]
AsList(f) == <<>> \o f

\* x_start + t * (x_end - x_start)
Lerp(a, b, t) == FAdd(a, FMul(t, FSub(b, a)))

\* math.sqrt(dx**2 + dy**2)
Hypot(dx, dy) == FSqrt(FAdd(FMul(dx, dx), FMul(dy, dy)))

\* kinematics.interpolate_line: max(2, int(distance * segments_per_inch))
\* segments, waypoint i at t = i / num_segments
LineSegments(x_start, y_start, x_end, y_end, segments_per_inch) ==
    IMax(2, FInt(FMul(Hypot(FSub(x_end, x_start), FSub(y_end, y_start)),
                      FromInt(segments_per_inch))))

LinePoint(x_start, y_start, x_end, y_end, t) ==
    <<Lerp(x_start, x_end, t), Lerp(y_start, y_end, t)>>

LinePoints(x_start, y_start, x_end, y_end, num_segments) ==
    AsList([k \in 1..(num_segments + 1) |->
               LinePoint(x_start, y_start, x_end, y_end,
                         RndRat((k - 1) * Unit, num_segments))])

interpolate_line(x_start, y_start, x_end, y_end, segments_per_inch) ==
    LinePoints(x_start, y_start, x_end, y_end,
               LineSegments(x_start, y_start, x_end, y_end, segments_per_inch))

\* the sweep without the correction by a full turn
SweepOf_NoTurn(diff, start_angle, end_angle, clockwise) == diff

\* the sweep angle interpolate_arc computes from end_angle - start_angle
SweepOf(diff, start_angle, end_angle, clockwise) ==
    IF clockwise
    THEN IF end_angle > start_angle THEN FSub(diff, TWO_PI) ELSE diff
    ELSE IF end_angle < start_angle THEN FAdd(diff, TWO_PI) ELSE diff

ArcSweep(start_angle, end_angle, clockwise) ==
    SweepOf(FSub(end_angle, start_angle), start_angle, end_angle, clockwise)

\* the number of segments of an arc without the minimum of 4
ArcSegments_NoMinimum(radius, sweep, segments_per_inch) ==
    IMax(1, FInt(FMul(Abs(FMul(radius, sweep)), FromInt(segments_per_inch))))

\* max(4, int(arc_length * segments_per_inch)), arc_length = abs(radius * sweep)
ArcSegments(radius, sweep, segments_per_inch) ==
    IMax(4, FInt(FMul(Abs(FMul(radius, sweep)), FromInt(segments_per_inch))))

ArcPoint(x_center, y_center, radius, angle) ==
    <<FAdd(x_center, FMul(radius, FCos(angle))),
      FAdd(y_center, FMul(radius, FSin(angle)))>>

ArcPoints(x_center, y_center, radius, start_angle, sweep, num_segments) ==
    AsList([k \in 1..(num_segments + 1) |->
               ArcPoint(x_center, y_center, radius,
                        FAdd(start_angle,
                             FMul(RndRat((k - 1) * Unit, num_segments), sweep)))])

ArcAlong(x_center, y_center, radius, start_angle, sweep, segments_per_inch) ==
    ArcPoints(x_center, y_center, radius, start_angle, sweep,
              ArcSegments(radius, sweep, segments_per_inch))

\* kinematics.interpolate_arc
interpolate_arc(x_start, y_start, x_end, y_end, x_center, y_center, clockwise, segments_per_inch) ==
    ArcAlong(x_center, y_center,
             Hypot(FSub(x_start, x_center), FSub(y_start, y_center)),
             FAtan2(FSub(y_start, y_center), FSub(x_start, x_center)),
             ArcSweep(FAtan2(FSub(y_start, y_center), FSub(x_start, x_center)),
                      FAtan2(FSub(y_end, y_center), FSub(x_end, x_center)),
                      clockwise),
             segments_per_inch)

\* ------------------------------------------------------ SCARAKinematics
max_reach == FAdd(ARM_L1, ARM_L2)

min_reach == Abs(FSub(ARM_L1, ARM_L2))

\* r = math.sqrt(x**2 + y**2)
Radius(x, y) == Hypot(x, y)

\* the reach checks refusing a target at full stretch
ReachCheck_Strict(r) ==
    IF r >= max_reach THEN "out of reach"
    ELSE IF r < min_reach THEN "too close"
    ELSE "none"

\* the reach checks of inverse_kinematics on r: which ValueError is raised
ReachCheck(r) ==
    IF r > max_reach THEN "out of reach"
    ELSE IF r < min_reach THEN "too close"
    ELSE "none"

ReachError(x, y) == ReachCheck(Radius(x, y))

InReach(r) == min_reach <= r /\ r <= max_reach

\* SCARAKinematics.is_reachable
is_reachable(x, y) == InReach(Radius(x, y))

\* cos_theta2 = (x^2 + y^2 - L1^2 - L2^2) / (2 L1 L2), clamped to [-1, 1]
CosTheta2(x, y) ==
    FMax(-Unit,
         FMin(Unit,
              FDiv(FSub(FSub(FAdd(FMul(x, x), FMul(y, y)), FMul(ARM_L1, ARM_L1)),
                        FMul(ARM_L2, ARM_L2)),
                   FMul(FMul(FromInt(2), ARM_L1), ARM_L2))))

\* theta2 = acos(cos_theta2), negated for the elbow-down solution
Theta2(cos_theta2, elbow_up) ==
    IF elbow_up THEN FAcos(cos_theta2) ELSE -FAcos(cos_theta2)

\* theta1 = atan2(y, x) - atan2(k2, k1)
Theta1(x, y, theta2) ==
    FSub(FAtan2(y, x),
         FAtan2(FMul(ARM_L2, FSin(theta2)), FAdd(ARM_L1, FMul(ARM_L2, FCos(theta2)))))

JointAngles(x, y, theta2) == <<FDegrees(Theta1(x, y, theta2)), FDegrees(theta2)>>

\* SCARAKinematics.inverse_kinematics for a point that passes the reach
\* checks: <<theta1_deg, theta2_deg>>
inverse_kinematics(x, y, elbow_up) ==
    IF Radius(x, y) * 1000 < Unit THEN <<0, 0>>
    ELSE JointAngles(x, y, Theta2(CosTheta2(x, y), elbow_up))

\* math.radians(d) = d * (pi / 180); pi / 180 is below the resolution of
\* the format, the product is rounded once
FRadians(d) == RndRat(d * 355, 113 * 180)

\* the end-effector position for joint angles in radians
ForwardAt(theta1, theta2) ==
    <<FAdd(FMul(ARM_L1, FCos(theta1)), FMul(ARM_L2, FCos(FAdd(theta1, theta2)))),
      FAdd(FMul(ARM_L1, FSin(theta1)), FMul(ARM_L2, FSin(FAdd(theta1, theta2))))>>

\* SCARAKinematics.forward_kinematics
forward_kinematics(theta1_deg, theta2_deg) ==
    ForwardAt(FRadians(theta1_deg), FRadians(theta2_deg))

\* forward_kinematics(*angles)
ForwardOf(angles) == forward_kinematics(angles[1], angles[2])

\* the locals of interpolate_arc: start_angle, end_angle, sweep, and the
\* angle of every waypoint
StartAngle(a) == FAtan2(FSub(a.y_start, a.y_center), FSub(a.x_start, a.x_center))

EndAngle(a) == FAtan2(FSub(a.y_end, a.y_center), FSub(a.x_end, a.x_center))

ArcRadius(a) == Hypot(FSub(a.x_start, a.x_center), FSub(a.y_start, a.y_center))

ArcAngles(start_angle, sweep, num_segments) ==
    AsList([k \in 1..(num_segments + 1) |->
               FAdd(start_angle, FMul(RndRat((k - 1) * Unit, num_segments), sweep))])

\* --------------------------------------------------------- GCodeParser
\* GCodeParser.__init__
NewParser ==
    [absolute_mode |-> TRUE,
     units         |-> DEFAULT_UNITS,
     current_pos   |-> [x |-> HOME_X, y |-> HOME_Y],
     offset        |-> [x |-> 0, y |-> 0],
     feed_rate     |-> DEFAULT_FEED_RATE,
     home_pos      |-> [x |-> HOME_X, y |-> HOME_Y],
     command_count |-> 0]

\* params.get(key, default)
Get(params, key, default) == IF key \in DOMAIN params THEN params[key] ELSE default

\* target position of a G0/G1/G2/G3 before the offset is applied
TargetAxis(p, params, key, axis) ==
    IF p.absolute_mode
    THEN Get(params, key, p.current_pos[axis])
    ELSE FAdd(p.current_pos[axis], Get(params, key, 0))

\* ResolveAxis with the line "target -= offset" left out
ResolveAxis_NoOffset(p, params, key, axis) == TargetAxis(p, params, key, axis)

\* ResolveAxis subtracting the offset only from a coordinate the command
\* gives
ResolveAxis_WhenGiven(p, params, key, axis) ==
    IF key \in DOMAIN params
    THEN FSub(TargetAxis(p, params, key, axis), p.offset[axis])
    ELSE TargetAxis(p, params, key, axis)

\* with the coordinate system offset (G92) applied: target -= offset
ResolveAxis(p, params, key, axis) ==
    FSub(TargetAxis(p, params, key, axis), p.offset[axis])

\* if 'F' in params: feed_rate = min(F, MAX_FEED_RATE)
UpdateFeed(p, params) ==
    IF "F" \in DOMAIN params THEN FMin(params["F"], MAX_FEED_RATE) ELSE p.feed_rate

\* GCodeParser._process_linear_move
\* the end of _process_linear_move: the position is updated, the move
\* information returned
LinearMove(p, feed, target_x, target_y, rapid, waypoints) ==
    [parser |-> [p EXCEPT !.feed_rate = feed,
                          !.current_pos = [x |-> target_x, y |-> target_y]],
     result |-> [command   |-> "MOVE_LINEAR",
                 start     |-> waypoints[1],
                 end       |-> waypoints[Len(waypoints)],
                 waypoints |-> waypoints,
                 speed     |-> IF rapid THEN MAX_FEED_RATE ELSE feed,
                 rapid     |-> rapid]]

\* the waypoints from the current position to the target
LinearMoveTo(p, feed, target_x, target_y, rapid) ==
    LinearMove(p, feed, target_x, target_y, rapid,
               interpolate_line(p.current_pos.x, p.current_pos.y,
                                target_x, target_y, LINE_SEGMENTS_PER_INCH))

process_linear_move(p, params, rapid) ==
    LinearMoveTo(p, UpdateFeed(p, params),
                 ResolveAxis(p, params, "X", "x"), ResolveAxis(p, params, "Y", "y"),
                 rapid)

\* GCodeParser._process_dwell
process_dwell(p, params) ==
    [parser |-> p,
     result |-> [command |-> "DWELL", duration |-> Get(params, "P", 0)]]

\* process_home moving to the home position whatever the parameters are
process_home_AlwaysMoves(p, params) ==
    [parser |-> [p EXCEPT !.current_pos = [x |-> p.home_pos.x, y |-> p.home_pos.y]],
     result |-> [command   |-> "HOME",
                 waypoints |-> interpolate_line(p.current_pos.x, p.current_pos.y,
                                                p.home_pos.x, p.home_pos.y,
                                                LINE_SEGMENTS_PER_INCH),
                 home      |-> <<p.home_pos.x, p.home_pos.y>>]]

\* process_home with the G92 offset applied to the home position
process_home_OffsetApplied(p, params) ==
    IF "X" \in DOMAIN params \/ "Y" \in DOMAIN params
    THEN [parser |-> p,
          result |-> [command      |-> "HOME",
                      intermediate |-> <<Get(params, "X", p.current_pos.x),
                                         Get(params, "Y", p.current_pos.y)>>,
                      home         |-> <<p.home_pos.x, p.home_pos.y>>]]
    ELSE [parser |-> [p EXCEPT !.current_pos = [x |-> FSub(p.home_pos.x, p.offset.x),
                                                y |-> FSub(p.home_pos.y, p.offset.y)]],
          result |-> [command   |-> "HOME",
                      waypoints |-> interpolate_line(p.current_pos.x, p.current_pos.y,
                                                     FSub(p.home_pos.x, p.offset.x),
                                                     FSub(p.home_pos.y, p.offset.y),
                                                     LINE_SEGMENTS_PER_INCH),
                      home      |-> <<p.home_pos.x, p.home_pos.y>>]]

\* GCodeParser._process_home
process_home(p, params) ==
    IF "X" \in DOMAIN params \/ "Y" \in DOMAIN params
    THEN [parser |-> p,
          result |-> [command      |-> "HOME",
                      intermediate |-> <<Get(params, "X", p.current_pos.x),
                                         Get(params, "Y", p.current_pos.y)>>,
                      home         |-> <<p.home_pos.x, p.home_pos.y>>]]
    ELSE [parser |-> [p EXCEPT !.current_pos = [x |-> p.home_pos.x, y |-> p.home_pos.y]],
          result |-> [command   |-> "HOME",
                      waypoints |-> interpolate_line(p.current_pos.x, p.current_pos.y,
                                                     p.home_pos.x, p.home_pos.y,
                                                     LINE_SEGMENTS_PER_INCH),
                      home      |-> <<p.home_pos.x, p.home_pos.y>>]]

\* SetOffsetAxis with the operands of the subtraction exchanged
SetOffsetAxis_Swapped(p, params, key, axis) ==
    FSub(Get(params, key, p.current_pos[axis]), p.current_pos[axis])

\* the offset G92 computes for one axis
SetOffsetAxis(p, params, key, axis) ==
    FSub(p.current_pos[axis], Get(params, key, p.current_pos[axis]))

\* G92 giving the position the values of X and Y, the offset left alone
process_set_position_SetsPosition(p, params) ==
    [parser |-> [p EXCEPT !.current_pos = [x |-> Get(params, "X", p.current_pos.x),
                                           y |-> Get(params, "Y", p.current_pos.y)]],
     result |-> [command |-> "SET_POSITION", action |-> "set_offset"]]

\* GCodeParser._process_set_position
process_set_position(p, params) ==
    IF DOMAIN params = {}
    THEN [parser |-> [p EXCEPT !.offset = [x |-> 0, y |-> 0]],
          result |-> [command |-> "SET_POSITION", action |-> "clear_offset"]]
    ELSE [parser |-> [p EXCEPT !.offset = [x |-> SetOffsetAxis(p, params, "X", "x"),
                                           y |-> SetOffsetAxis(p, params, "Y", "y")]],
          result |-> [command      |-> "SET_POSITION",
                      action       |-> "set_offset",
                      new_position |-> <<Get(params, "X", p.current_pos.x),
                                         Get(params, "Y", p.current_pos.y)>>,
                      offset       |-> <<SetOffsetAxis(p, params, "X", "x"),
                                         SetOffsetAxis(p, params, "Y", "y")>>]]

\* GCodeParser.get_current_position
get_current_position(p) ==
    [x |-> FSub(p.current_pos.x, p.offset.x),
     y |-> FSub(p.current_pos.y, p.offset.y)]

\* GCodeParser._process_arc_move
\* the end of _process_arc_move: the position is updated, the move
\* information returned
ArcMove(p, feed, target_x, target_y, center_x, center_y, clockwise, waypoints) ==
    [parser |-> [p EXCEPT !.feed_rate = feed,
                          !.current_pos = [x |-> target_x, y |-> target_y]],
     result |-> [command   |-> "MOVE_ARC",
                 start     |-> waypoints[1],
                 end       |-> waypoints[Len(waypoints)],
                 center    |-> <<center_x, center_y>>,
                 waypoints |-> waypoints,
                 speed     |-> feed,
                 clockwise |-> clockwise]]

\* the waypoints from the current position to the target about the center
ArcMoveTo(p, feed, target_x, target_y, center_x, center_y, clockwise) ==
    ArcMove(p, feed, target_x, target_y, center_x, center_y, clockwise,
            interpolate_arc(p.current_pos.x, p.current_pos.y,
                            target_x, target_y, center_x, center_y,
                            clockwise, ARC_SEGMENTS_PER_INCH))

\* process_arc_move with I and J taken from the target, not from the
\* position before the move
process_arc_move_CenterFromTarget(p, params, clockwise) ==
    ArcMoveTo(p, UpdateFeed(p, params),
              ResolveAxis(p, params, "X", "x"), ResolveAxis(p, params, "Y", "y"),
              FAdd(ResolveAxis(p, params, "X", "x"), Get(params, "I", 0)),
              FAdd(ResolveAxis(p, params, "Y", "y"), Get(params, "J", 0)),
              clockwise)

process_arc_move(p, params, clockwise) ==
    ArcMoveTo(p, UpdateFeed(p, params),
              ResolveAxis(p, params, "X", "x"), ResolveAxis(p, params, "Y", "y"),
              FAdd(p.current_pos.x, Get(params, "I", 0)),
              FAdd(p.current_pos.y, Get(params, "J", 0)),
              clockwise)

\* the dispatch of execute_command on the command code
Dispatch(p, cmd) ==
    LET command == cmd.command
        params  == cmd.params
    IN  CASE command = "G0"  -> process_linear_move(p, params, TRUE)
          [] command = "G1"  -> process_linear_move(p, params, FALSE)
          [] command = "G2"  -> process_arc_move(p, params, TRUE)
          [] command = "G3"  -> process_arc_move(p, params, FALSE)
          [] command = "G4"  -> process_dwell(p, params)
          [] command = "G20" -> [parser |-> [p EXCEPT !.units = "inches"],
                                 result |-> [command |-> "UNITS", units |-> "inches"]]
          [] command = "G21" -> [parser |-> [p EXCEPT !.units = "mm"],
                                 result |-> [command |-> "UNITS", units |-> "mm"]]
          [] command = "G28" -> process_home(p, params)
          [] command = "G90" -> [parser |-> [p EXCEPT !.absolute_mode = TRUE],
                                 result |-> [command |-> "MODE", mode |-> "absolute"]]
          [] command = "G91" -> [parser |-> [p EXCEPT !.absolute_mode = FALSE],
                                 result |-> [command |-> "MODE", mode |-> "incremental"]]
          [] command = "G92" -> process_set_position(p, params)
          [] command = "M2"  -> [parser |-> p, result |-> [command |-> "END"]]
          [] command = "M6"  -> [parser |-> p,
                                 result |-> [command |-> "TOOL_CHANGE",
                                             tool    |-> FInt(Get(params, "T", 0))]]
          [] OTHER           -> [parser |-> p,
                                 result |-> [command |-> "UNKNOWN", raw |-> cmd.raw]]

\* execute_command with G91 leaving the mode as it is
execute_command_G91Kept(p, cmd) ==
    IF cmd.command = "G91"
    THEN [parser |-> [p EXCEPT !.command_count = p.command_count + 1],
          result |-> [command |-> "MODE", mode |-> "incremental"]]
    ELSE Dispatch([p EXCEPT !.command_count = p.command_count + 1], cmd)

\* reset leaving the command counter as it is
reset_KeepsCount(p) == [NewParser EXCEPT !.command_count = p.command_count]

\* GCodeParser.reset: self.__init__()
reset(p) == NewParser

\* GCodeParser.execute_command on a parsed command: the command counter is
\* incremented, then the command is dispatched
execute_command(p, cmd) ==
    Dispatch([p EXCEPT !.command_count = p.command_count + 1], cmd)

\* -------------------------------------------------- non-finite numbers
\* float() also returns inf, -inf and nan ("INF", "1E999", "NAN").  They
\* are numbers outside the finite range; the operations below follow the
\* IEEE 754 rules for them and are the finite operations otherwise.
PosInf == Pow2(30)

NegInf == -PosInf

NaN == PosInf + 1

IsNaN(v) == v = NaN

IsInf(v) == v = PosInf \/ v = NegInf

IsFinite(v) == ~IsNaN(v) /\ ~IsInf(v)

XNeg(a) == IF IsNaN(a) THEN NaN ELSE -a

XAbs(a) == IF IsNaN(a) THEN NaN ELSE Abs(a)

\* a + b
XAdd(a, b) ==
    IF IsNaN(a) \/ IsNaN(b) THEN NaN
    ELSE IF IsInf(a) THEN (IF IsInf(b) /\ b # a THEN NaN ELSE a)
    ELSE IF IsInf(b) THEN b
    ELSE FAdd(a, b)

\* a - b
XSub(a, b) == XAdd(a, XNeg(b))

\* a * b, and a ** 2 as a * a
XMul(a, b) ==
    IF IsNaN(a) \/ IsNaN(b) THEN NaN
    ELSE IF IsInf(a) \/ IsInf(b)
    THEN (IF a = 0 \/ b = 0 THEN NaN
          ELSE IF (a < 0) = (b < 0) THEN PosInf ELSE NegInf)
    ELSE FMul(a, b)

\* math.sqrt of a sum of squares: sqrt(inf) = inf, sqrt(nan) = nan
XSqrt(a) == IF IsFinite(a) THEN FSqrt(a) ELSE a

XHypot(dx, dy) == XSqrt(XAdd(XMul(dx, dx), XMul(dy, dy)))

\* a < b: false when either is nan
XLt(a, b) == ~IsNaN(a) /\ ~IsNaN(b) /\ a < b

\* min(a, b) of Python: b when b < a, else a
XMin(a, b) == IF XLt(b, a) THEN b ELSE a

\* the exception int(v) raises
IntError(v) ==
    IF IsNaN(v) THEN "ValueError"
    ELSE IF IsInf(v) THEN "OverflowError"
    ELSE "none"

\* an angle given in steps of 1/TrigScale, as a float
FromTrig(a) == RndRat(a * Unit, TrigScale)

\* math.atan2(y, x) with y infinite: +-pi/2, +-pi/4 (x = inf), +-3pi/4 (x = -inf)
Atan2InfY(y, x) ==
    Sign(y) * FromTrig(IF x = PosInf THEN HalfPiT \div 2
                       ELSE IF x = NegInf THEN PiT - HalfPiT \div 2
                       ELSE HalfPiT)

\* math.atan2(y, x)
XAtan2(y, x) ==
    IF IsNaN(y) \/ IsNaN(x) THEN NaN
    ELSE IF IsInf(y) THEN Atan2InfY(y, x)
    ELSE IF x = PosInf THEN 0
    ELSE IF x = NegInf THEN Sign(y) * FromTrig(PiT)
    ELSE FAtan2(y, x)

\* no value is returned: the call raised the exception err
Raised(err) == [command |-> "raised", error |-> err]

XTargetAxis(p, params, key, axis) ==
    IF p.absolute_mode
    THEN Get(params, key, p.current_pos[axis])
    ELSE XAdd(p.current_pos[axis], Get(params, key, 0))

XResolveAxis(p, params, key, axis) ==
    XSub(XTargetAxis(p, params, key, axis), p.offset[axis])

XUpdateFeed(p, params) ==
    IF "F" \in DOMAIN params THEN XMin(params["F"], MAX_FEED_RATE) ELSE p.feed_rate

\* the exception interpolate_line raises between two points:
\* int(distance * segments_per_inch)
LineError(x_start, y_start, x_end, y_end, segments_per_inch) ==
    IntError(XMul(XHypot(XSub(x_end, x_start), XSub(y_end, y_start)),
                  FromInt(segments_per_inch)))

\* _process_linear_move from the call of interpolate_line on: when it
\* raises, the feed rate is already set and the position is not yet
XLinearMoveTo(p, feed, target_x, target_y, rapid) ==
    IF LineError(p.current_pos.x, p.current_pos.y, target_x, target_y,
                 LINE_SEGMENTS_PER_INCH) = "none"
    THEN LinearMoveTo(p, feed, target_x, target_y, rapid)
    ELSE [parser |-> [p EXCEPT !.feed_rate = feed],
          result |-> Raised(LineError(p.current_pos.x, p.current_pos.y,
                                      target_x, target_y, LINE_SEGMENTS_PER_INCH))]

\* GCodeParser._process_linear_move
Xprocess_linear_move(p, params, rapid) ==
    XLinearMoveTo(p, XUpdateFeed(p, params),
                  XResolveAxis(p, params, "X", "x"), XResolveAxis(p, params, "Y", "y"),
                  rapid)

XSweepOf(diff, start_angle, end_angle, clockwise) ==
    IF clockwise
    THEN IF XLt(start_angle, end_angle) THEN XSub(diff, TWO_PI) ELSE diff
    ELSE IF XLt(end_angle, start_angle) THEN XAdd(diff, TWO_PI) ELSE diff

XArcSweep(start_angle, end_angle, clockwise) ==
    XSweepOf(XSub(end_angle, start_angle), start_angle, end_angle, clockwise)

\* the exception interpolate_arc raises: int(arc_length * segments_per_inch)
ArcError(radius, sweep, segments_per_inch) ==
    IntError(XMul(XAbs(XMul(radius, sweep)), FromInt(segments_per_inch)))

\* _process_arc_move from the call of interpolate_arc on, the arc given by
\* its radius, start angle and sweep
XArcMoveAlong(p, feed, target_x, target_y, center_x, center_y, clockwise, radius, start_angle, sweep) ==
    IF ArcError(radius, sweep, ARC_SEGMENTS_PER_INCH) = "none"
    THEN ArcMove(p, feed, target_x, target_y, center_x, center_y, clockwise,
                 ArcAlong(center_x, center_y, radius, start_angle, sweep,
                          ARC_SEGMENTS_PER_INCH))
    ELSE [parser |-> [p EXCEPT !.feed_rate = feed],
          result |-> Raised(ArcError(radius, sweep, ARC_SEGMENTS_PER_INCH))]

XArcMoveFrom(p, feed, target_x, target_y, center_x, center_y, clockwise, radius, start_angle, end_angle) ==
    XArcMoveAlong(p, feed, target_x, target_y, center_x, center_y, clockwise,
                  radius, start_angle, XArcSweep(start_angle, end_angle, clockwise))

XArcMoveTo(p, feed, target_x, target_y, center_x, center_y, clockwise) ==
    XArcMoveFrom(p, feed, target_x, target_y, center_x, center_y, clockwise,
                 XHypot(XSub(p.current_pos.x, center_x), XSub(p.current_pos.y, center_y)),
                 XAtan2(XSub(p.current_pos.y, center_y), XSub(p.current_pos.x, center_x)),
                 XAtan2(XSub(target_y, center_y), XSub(target_x, center_x)))

\* GCodeParser._process_arc_move
Xprocess_arc_move(p, params, clockwise) ==
    XArcMoveTo(p, XUpdateFeed(p, params),
               XResolveAxis(p, params, "X", "x"), XResolveAxis(p, params, "Y", "y"),
               XAdd(p.current_pos.x, Get(params, "I", 0)),
               XAdd(p.current_pos.y, Get(params, "J", 0)),
               clockwise)

\* GCodeParser._process_home: the line to the home position may raise
Xprocess_home(p, params) ==
    IF "X" \in DOMAIN params \/ "Y" \in DOMAIN params
       \/ LineError(p.current_pos.x, p.current_pos.y, p.home_pos.x, p.home_pos.y,
                    LINE_SEGMENTS_PER_INCH) = "none"
    THEN process_home(p, params)
    ELSE [parser |-> p,
          result |-> Raised(LineError(p.current_pos.x, p.current_pos.y,
                                      p.home_pos.x, p.home_pos.y,
                                      LINE_SEGMENTS_PER_INCH))]

XSetOffsetAxis(p, params, key, axis) ==
    XSub(p.current_pos[axis], Get(params, key, p.current_pos[axis]))

\* GCodeParser._process_set_position
Xprocess_set_position(p, params) ==
    IF DOMAIN params = {}
    THEN process_set_position(p, params)
    ELSE [parser |-> [p EXCEPT !.offset = [x |-> XSetOffsetAxis(p, params, "X", "x"),
                                           y |-> XSetOffsetAxis(p, params, "Y", "y")]],
          result |-> [command      |-> "SET_POSITION",
                      action       |-> "set_offset",
                      new_position |-> <<Get(params, "X", p.current_pos.x),
                                         Get(params, "Y", p.current_pos.y)>>,
                      offset       |-> <<XSetOffsetAxis(p, params, "X", "x"),
                                         XSetOffsetAxis(p, params, "Y", "y")>>]]

\* M6: int(params.get('T', 0)) may raise
XToolChange(p, params) ==
    IF IntError(Get(params, "T", 0)) = "none"
    THEN [parser |-> p,
          result |-> [command |-> "TOOL_CHANGE", tool |-> FInt(Get(params, "T", 0))]]
    ELSE [parser |-> p, result |-> Raised(IntError(Get(params, "T", 0)))]

\* the dispatch of execute_command, the numbers being any floats
XDispatch(p, cmd) ==
    CASE cmd.command = "G0"  -> Xprocess_linear_move(p, cmd.params, TRUE)
      [] cmd.command = "G1"  -> Xprocess_linear_move(p, cmd.params, FALSE)
      [] cmd.command = "G2"  -> Xprocess_arc_move(p, cmd.params, TRUE)
      [] cmd.command = "G3"  -> Xprocess_arc_move(p, cmd.params, FALSE)
      [] cmd.command = "G28" -> Xprocess_home(p, cmd.params)
      [] cmd.command = "G92" -> Xprocess_set_position(p, cmd.params)
      [] cmd.command = "M6"  -> XToolChange(p, cmd.params)
      [] OTHER               -> Dispatch(p, cmd)

\* execute_command counting the command after it was dispatched
Xexecute_command_CountAfter(p, cmd) ==
    IF XDispatch(p, cmd).result.command = "raised"
    THEN XDispatch(p, cmd)
    ELSE XDispatch([p EXCEPT !.command_count = p.command_count + 1], cmd)

\* GCodeParser.execute_command, the numbers being any floats: it returns a
\* result or raises
Xexecute_command(p, cmd) ==
    XDispatch([p EXCEPT !.command_count = p.command_count + 1], cmd)

\* ------------------------------------------------------ SDCardExporter
\* constrain_servo_angle without the clamp
constrain_servo_angle_None(angle, servo_num) == angle

\* config.constrain_servo_angle: max(MIN, min(MAX, angle)), angle a float
\* and the limits whole degrees
constrain_servo_angle(angle, servo_num) ==
    IF servo_num = 1
    THEN FMax(FromInt(SERVO1_MIN), FMin(FromInt(SERVO1_MAX), angle))
    ELSE FMax(FromInt(SERVO2_MIN), FMin(FromInt(SERVO2_MAX), angle))

\* config.apply_servo_offset
apply_servo_offset(angle1, angle2) ==
    <<constrain_servo_angle(FAdd(angle1, FromInt(SERVO1_OFFSET)), 1),
      constrain_servo_angle(FAdd(angle2, FromInt(SERVO2_OFFSET)), 2)>>

\* int(round(v)): the nearest whole number, ties to even
FRound(v) == Sign(v) * RoundTo(Abs(v), Unit)

\* f"{v:.2f}": v in hundredths, to nearest, ties to even
Fmt2(v) == Sign(v) * RoundTo(Abs(v) * 100, Unit)

\* the servo pair appended for a reachable waypoint
RoundPair(adj) == <<FRound(adj[1]), FRound(adj[2])>>

OffsetPair(theta) == apply_servo_offset(theta[1], theta[2])

ServoPair(x, y) == RoundPair(OffsetPair(inverse_kinematics(x, y, TRUE)))

\* the entry logged for an unreachable waypoint of line line_no
ReachLogEntry(line_no, x, y) ==
    [line |-> line_no, x |-> Fmt2(x), y |-> Fmt2(y), error |-> ReachError(x, y)]

\* whether inverse_kinematics returns for the waypoint q (raises nothing)
Converts(q) == ReachError(q[1], q[2]) = "none"

\* the waypoints before the first one inverse_kinematics raises for, and
\* that one
UpToFirstError(waypoints) ==
    LET bad == {k \in 1..Len(waypoints) : ~Converts(waypoints[k])}
    IN  IF bad = {} THEN waypoints
        ELSE SubSeq(waypoints, 1, CHOOSE k \in bad : \A j \in bad : k <= j)

\* the loop over the waypoints of one result, in order: a pair is appended
\* for every waypoint inverse_kinematics returns for, a log entry for every
\* waypoint it raises ValueError for
PairsOf(good) == [k \in 1..Len(good) |-> ServoPair(good[k][1], good[k][2])]

\* one entry for the line, whatever the number of its unreachable waypoints
EntriesOf_OnePerLine(line_no, bad) ==
    IF bad = <<>> THEN <<>> ELSE <<ReachLogEntry(line_no, bad[1][1], bad[1][2])>>

EntriesOf(line_no, bad) ==
    [k \in 1..Len(bad) |-> ReachLogEntry(line_no, bad[k][1], bad[k][2])]

ConvertAll(waypoints, line_no, angles, log) ==
    [angles |-> angles \o PairsOf(SelectSeq(waypoints, Converts)),
     log    |-> log \o EntriesOf(line_no, SelectSeq(waypoints, LAMBDA q : ~Converts(q)))]

\* ConvertWaypoints leaving the loop at the first unreachable waypoint
ConvertWaypoints_Abort(waypoints, line_no, angles, log) ==
    ConvertAll(UpToFirstError(waypoints), line_no, angles, log)

ConvertWaypoints(waypoints, line_no, angles, log) ==
    ConvertAll(waypoints, line_no, angles, log)

\* the waypoints of a result without the first one, the point the move
\* starts from
WaypointsOf_SkipStart(res) ==
    IF "waypoints" \in DOMAIN res /\ res.waypoints # <<>> THEN Tail(res.waypoints) ELSE <<>>

\* result.get('waypoints', [])
WaypointsOf(res) == IF "waypoints" \in DOMAIN res THEN res.waypoints ELSE <<>>

\* the duplicates a DWELL result appends: int(duration * 2) copies of the
\* last pair when duration > 0 and the list is not empty
DwellRepeats(res, angles) ==
    IF XLt(0, res.duration) /\ Len(angles) > 0
    THEN [k \in 1..FInt(FMul(res.duration, FromInt(2))) |-> angles[Len(angles)]]
    ELSE <<>>

\* the loop goes on with the lists c holds
Continue(c) == [angles |-> c.angles, log |-> c.log, stop |-> FALSE]

\* HandleResult appending nothing on END
HandleResult_NoHomeAtEnd(res, line_no, angles, log) ==
    IF res.command \in {"MOVE_LINEAR", "MOVE_ARC", "HOME"}
    THEN Continue(ConvertWaypoints(WaypointsOf(res), line_no, angles, log))
    ELSE IF res.command = "DWELL"
    THEN [angles |-> angles \o DwellRepeats(res, angles), log |-> log, stop |-> FALSE]
    ELSE IF res.command = "END"
    THEN [angles |-> angles, log |-> log, stop |-> TRUE]
    ELSE [angles |-> angles, log |-> log, stop |-> FALSE]

\* HandleResult without the break on END
HandleResult_NoBreak(res, line_no, angles, log) ==
    IF res.command \in {"MOVE_LINEAR", "MOVE_ARC", "HOME"}
    THEN Continue(ConvertWaypoints(WaypointsOf(res), line_no, angles, log))
    ELSE IF res.command = "DWELL"
    THEN [angles |-> angles \o DwellRepeats(res, angles), log |-> log, stop |-> FALSE]
    ELSE IF res.command = "END"
    THEN [angles |-> Append(angles, <<SERVO1_HOME, SERVO2_HOME>>), log |-> log,
          stop |-> FALSE]
    ELSE [angles |-> angles, log |-> log, stop |-> FALSE]

\* HandleResult leaving the loop at a result it has no branch for
HandleResult_UnknownStops(res, line_no, angles, log) ==
    IF res.command \in {"MOVE_LINEAR", "MOVE_ARC", "HOME"}
    THEN Continue(ConvertWaypoints(WaypointsOf(res), line_no, angles, log))
    ELSE IF res.command = "DWELL"
    THEN [angles |-> angles \o DwellRepeats(res, angles), log |-> log, stop |-> FALSE]
    ELSE IF res.command = "END"
    THEN [angles |-> Append(angles, <<SERVO1_HOME, SERVO2_HOME>>), log |-> log,
          stop |-> TRUE]
    ELSE [angles |-> angles, log |-> log, stop |-> res.command = "UNKNOWN"]

\* the body of the loop of process_gcode for a result of execute_command:
\* the new angle list and error log, and whether the loop breaks
HandleResult(res, line_no, angles, log) ==
    IF res.command \in {"MOVE_LINEAR", "MOVE_ARC", "HOME"}
    THEN Continue(ConvertWaypoints(WaypointsOf(res), line_no, angles, log))
    ELSE IF res.command = "DWELL"
    THEN [angles |-> angles \o DwellRepeats(res, angles), log |-> log, stop |-> FALSE]
    ELSE IF res.command = "END"
    THEN [angles |-> Append(angles, <<SERVO1_HOME, SERVO2_HOME>>), log |-> log,
          stop |-> TRUE]
    ELSE [angles |-> angles, log |-> log, stop |-> FALSE]

\* the exception raised while a command line is handled: the one
\* execute_command raised, or the one int(duration * 2) raises for a DWELL
\* result
HandlingError(res) ==
    IF res.command = "raised" THEN res.error
    ELSE IF res.command = "DWELL" /\ XLt(0, res.duration)
    THEN IntError(XMul(res.duration, FromInt(2)))
    ELSE "none"

\* the entry "except Exception" logs for the line: its number, its text and
\* the exception
ExceptionLogEntry(line_no, line, err) ==
    [line |-> line_no, text |-> line.raw, error |-> err]

\* HandleOutcome leaving the loop when an exception was caught
HandleOutcome_Abort(res, line, line_no, angles, log) ==
    IF HandlingError(res) = "none"
    THEN HandleResult(res, line_no, angles, log)
    ELSE [angles |-> angles,
          log    |-> Append(log, ExceptionLogEntry(line_no, line, HandlingError(res))),
          stop   |-> TRUE]

\* the try block of the loop of process_gcode and its "except Exception":
\* the result is handled, or the exception is logged and the loop goes on
HandleOutcome(res, line, line_no, angles, log) ==
    IF HandlingError(res) = "none"
    THEN HandleResult(res, line_no, angles, log)
    ELSE [angles |-> angles,
          log    |-> Append(log, ExceptionLogEntry(line_no, line, HandlingError(res))),
          stop   |-> FALSE]

\* ------------------------------------------------------------- inputs
NoParams == [k \in {} |-> 0]

\* a line of G-code as parse_line returns it: 'command', 'params', 'raw'
Cmd(code, params, raw) == [command |-> code, params |-> params, raw |-> raw]

\* the commands given to execute_command (numbers are decimal literals)
Commands ==
    { Cmd("G0",  ("X" :> FromInt(4) @@ "Y" :> FromInt(4)), "G0 X4 Y4"),
      Cmd("G1",  ("X" :> FromInt(6) @@ "Y" :> FromInt(4) @@ "F" :> FromTenths(25)),
                 "G1 X6 Y4 F2.5"),
      Cmd("G1",  ("X" :> FromInt(2) @@ "Y" :> FromInt(2)), "G1 X2 Y2"),
      Cmd("G1",  ("X" :> FromTenths(1) @@ "Y" :> FromTenths(1)), "G1 X0.1 Y0.1"),
      Cmd("G1",  ("Y" :> FromInt(3) @@ "F" :> FromInt(12)), "G1 Y3 F12"),
      Cmd("G0",  ("X" :> FromInt(13)), "G0 X13"),
      Cmd("G1",  NoParams, "G1"),
      Cmd("G2",  NoParams, "G2"),
      Cmd("G2",  ("X" :> FromInt(6) @@ "Y" :> FromInt(6) @@ "I" :> FromInt(1)
                  @@ "J" :> FromInt(0)), "G2 X6 Y6 I1 J0"),
      Cmd("G3",  ("X" :> FromInt(4) @@ "Y" :> FromInt(6) @@ "J" :> FromInt(1)),
                 "G3 X4 Y6 J1"),
      Cmd("G4",  ("P" :> FromTenths(15)), "G4 P1.5"),
      Cmd("G20", NoParams, "G20"),
      Cmd("G21", NoParams, "G21"),
      Cmd("G28", NoParams, "G28"),
      Cmd("G28", ("X" :> FromInt(1)), "G28 X1"),
      Cmd("G28", ("F" :> FromInt(1)), "G28 F1"),
      Cmd("G90", NoParams, "G90"),
      Cmd("G91", NoParams, "G91"),
      Cmd("G92", ("X" :> FromInt(0) @@ "Y" :> FromInt(0)), "G92 X0 Y0"),
      Cmd("G92", ("X" :> FromInt(1)), "G92 X1"),
      Cmd("G92", ("X" :> FromTenths(9) @@ "Y" :> FromTenths(1)), "G92 X0.9 Y0.1"),
      Cmd("G92", ("F" :> FromInt(1)), "G92 F1"),
      Cmd("G92", NoParams, "G92"),
      Cmd("M2",  NoParams, "M2"),
      Cmd("M6",  ("T" :> FromInt(1)), "M6 T1"),
      Cmd("G99", NoParams, "G99") }

\* an empty line and a comment-only line of a script
BlankLine == Cmd("", NoParams, "")

CommentLine == Cmd(";", NoParams, "; note")

\* the lines a text given to process_gcode is made of
Lines ==
    { BlankLine,
      CommentLine,
      Cmd("G0",  ("X" :> FromInt(4) @@ "Y" :> FromInt(4)), "G0 X4 Y4"),
      Cmd("G1",  ("X" :> FromInt(9) @@ "Y" :> FromInt(9) @@ "F" :> FromInt(2)),
                 "G1 X9 Y9 F2"),
      Cmd("G3",  ("X" :> FromInt(6) @@ "Y" :> FromInt(6) @@ "I" :> FromTenths(-5)),
                 "G3 X6 Y6 I-0.5"),
      Cmd("G4",  ("P" :> FromInt(1)), "G4 P1"),
      Cmd("G4",  NoParams, "G4"),
      Cmd("G28", NoParams, "G28"),
      Cmd("G91", NoParams, "G91"),
      Cmd("G92", ("X" :> FromInt(0) @@ "Y" :> FromInt(0)), "G92 X0 Y0"),
      Cmd("M2",  NoParams, "M2"),
      Cmd("G28", ("X" :> FromInt(1)), "G28 X1"),
      Cmd("G1",  ("X" :> NaN), "G1 XNAN"),
      Cmd("G4",  ("P" :> PosInf), "G4 PINF"),
      Cmd("G99", NoParams, "G99") }

Texts == UNION { [1..n -> Lines] : n \in 0..MaxLines }

\* ---------------------------------------------------------- parse_line
\* A line of text is a sequence of characters (strings of length one).
LowerCase ==
    <<"a", "b", "c", "d", "e", "f", "g", "h", "i", "j", "k", "l", "m",
      "n", "o", "p", "q", "r", "s", "t", "u", "v", "w", "x", "y", "z">>

UpperCase ==
    <<"A", "B", "C", "D", "E", "F", "G", "H", "I", "J", "K", "L", "M",
      "N", "O", "P", "Q", "R", "S", "T", "U", "V", "W", "X", "Y", "Z">>

Digit == <<"0", "1", "2", "3", "4", "5", "6", "7", "8", "9">>

IsIn(c, s) == \E i \in 1..Len(s) : s[i] = c

\* the place of the first c in s
Find(s, c) == CHOOSE i \in 1..Len(s) : s[i] = c /\ \A j \in 1..(i - 1) : s[j] # c

\* s.split(c)[0], and what follows the first c
Before(s, c) == IF IsIn(c, s) THEN SubSeq(s, 1, Find(s, c) - 1) ELSE s

After(s, c) == IF IsIn(c, s) THEN SubSeq(s, Find(s, c) + 1, Len(s)) ELSE <<>>

\* str.upper()
UpperOf(c) == IF IsIn(c, LowerCase) THEN UpperCase[Find(LowerCase, c)] ELSE c

Upper(s) == [i \in 1..Len(s) |-> UpperOf(s[i])]

\* line.split(';')[0]
BeforeComment(s) == Before(s, ";")

IsSpace(c) == c = " "

IsBlank(s) == \A i \in 1..Len(s) : IsSpace(s[i])

FirstNonSpace(s) ==
    CHOOSE i \in 1..Len(s) : ~IsSpace(s[i]) /\ \A j \in 1..(i - 1) : IsSpace(s[j])

LastNonSpace(s) ==
    CHOOSE i \in 1..Len(s) : ~IsSpace(s[i]) /\ \A j \in (i + 1)..Len(s) : IsSpace(s[j])

\* str.strip()
Strip(s) == IF IsBlank(s) THEN <<>> ELSE SubSeq(s, FirstNonSpace(s), LastNonSpace(s))

\* the length of the word a stripped text begins with
WordLen(s) ==
    CHOOSE n \in 1..Len(s) :
        /\ \A i \in 1..n : ~IsSpace(s[i])
        /\ n = Len(s) \/ IsSpace(s[n + 1])

\* str.split(): the words between runs of whitespace
RECURSIVE SplitStripped(_)
SplitStripped(s) ==
    IF s = <<>> THEN <<>>
    ELSE <<SubSeq(s, 1, WordLen(s))>>
             \o SplitStripped(Strip(SubSeq(s, WordLen(s) + 1, Len(s))))

Split(s) == SplitStripped(Strip(s))

\* float(text): a sign, then INF, INFINITY, NAN, or a decimal literal with
\* an optional exponent
HasSign(s) == Len(s) > 0 /\ s[1] \in {"+", "-"}

Unsigned(s) == IF HasSign(s) THEN Tail(s) ELSE s

SignOf(s) == IF Len(s) > 0 /\ s[1] = "-" THEN -1 ELSE 1

AllDigits(s) == \A i \in 1..Len(s) : IsIn(s[i], Digit)

RECURSIVE DigitsValue(_)
DigitsValue(s) ==
    IF s = <<>> THEN 0
    ELSE 10 * DigitsValue(SubSeq(s, 1, Len(s) - 1)) + (Find(Digit, s[Len(s)]) - 1)

MantissaOf(u) == Before(u, "E")

ExponentOf(u) == IF IsIn("E", u) THEN After(u, "E") ELSE <<"0">>

IsMantissa(m) ==
    /\ AllDigits(Before(m, "."))
    /\ AllDigits(After(m, "."))
    /\ Len(Before(m, ".")) + Len(After(m, ".")) > 0

IsExponent(e) == Len(Unsigned(e)) > 0 /\ AllDigits(Unsigned(e))

IsDecimal(u) == IsMantissa(MantissaOf(u)) /\ IsExponent(ExponentOf(u))

Pow10(n) == 10 ^ n

\* the number of decimal digits of n > 0
DigitCount(n) == CHOOSE d \in 1..10 : Pow10(d - 1) <= n /\ (d = 10 \/ n < Pow10(d))

\* the float nearest to n * 10^k: infinity past the largest double
\* (about 1.8E308), zero below the smallest
Scaled(n, k) ==
    IF n = 0 THEN 0
    ELSE IF DigitCount(n) + k > 309 THEN PosInf
    ELSE IF DigitCount(n) + k < -323 THEN 0
    ELSE IF k >= 0 THEN Rnd(n * Pow10(k) * Unit)
    ELSE RndRat(n * Unit, Pow10(-k))

DecimalValue(m, e) ==
    Scaled(DigitsValue(Before(m, ".") \o After(m, ".")),
           SignOf(e) * DigitsValue(Unsigned(e)) - Len(After(m, ".")))

\* float(s): ok is FALSE where float raises ValueError
ParseFloat(s) ==
    IF Unsigned(s) \in {<<"I", "N", "F">>, <<"I", "N", "F", "I", "N", "I", "T", "Y">>}
    THEN [ok |-> TRUE, value |-> SignOf(s) * PosInf]
    ELSE IF Unsigned(s) = <<"N", "A", "N">>
    THEN [ok |-> TRUE, value |-> NaN]
    ELSE IF IsDecimal(Unsigned(s))
    THEN [ok |-> TRUE,
          value |-> SignOf(s) * DecimalValue(MantissaOf(Unsigned(s)), ExponentOf(Unsigned(s)))]
    ELSE [ok |-> FALSE, value |-> 0]

\* the loop over parts[1:] keeping the first value given for a key
RECURSIVE ParamsOf_FirstWins(_)
ParamsOf_FirstWins(parts) ==
    IF parts = <<>> THEN NoParams
    ELSE IF Len(parts[Len(parts)]) >= 2 /\ ParseFloat(Tail(parts[Len(parts)])).ok
    THEN ParamsOf_FirstWins(SubSeq(parts, 1, Len(parts) - 1))
             @@ (parts[Len(parts)][1] :> ParseFloat(Tail(parts[Len(parts)])).value)
    ELSE ParamsOf_FirstWins(SubSeq(parts, 1, Len(parts) - 1))

\* the loop over parts[1:]: a part of two characters or more whose tail is
\* a float sets params[part[0]], a later part replacing an earlier one
RECURSIVE ParamsOf(_)
ParamsOf(parts) ==
    IF parts = <<>> THEN NoParams
    ELSE IF Len(parts[Len(parts)]) >= 2 /\ ParseFloat(Tail(parts[Len(parts)])).ok
    THEN (parts[Len(parts)][1] :> ParseFloat(Tail(parts[Len(parts)])).value)
             @@ ParamsOf(SubSeq(parts, 1, Len(parts) - 1))
    ELSE ParamsOf(SubSeq(parts, 1, Len(parts) - 1))

\* parse_line returning None
None == [command |-> <<>>, params |-> NoParams, raw |-> <<>>]

Parsed(body, parts) ==
    [command |-> parts[1], params |-> ParamsOf(Tail(parts)), raw |-> body]

\* parse_line without line.upper()
parse_line_CaseKept(line) ==
    IF Strip(BeforeComment(line)) = <<>> THEN None
    ELSE Parsed(Strip(BeforeComment(line)), Split(Strip(BeforeComment(line))))

\* GCodeParser.parse_line
parse_line(line) ==
    IF Strip(BeforeComment(line)) = <<>> THEN None
    ELSE Parsed(Strip(BeforeComment(line)), Split(Upper(Strip(BeforeComment(line)))))

\* the codes execute_command compares the command with
CodeChars ==
    ("G0" :> <<"G", "0">>) @@ ("G1" :> <<"G", "1">>) @@ ("G2" :> <<"G", "2">>) @@
    ("G3" :> <<"G", "3">>) @@ ("G4" :> <<"G", "4">>) @@ ("G20" :> <<"G", "2", "0">>) @@
    ("G21" :> <<"G", "2", "1">>) @@ ("G28" :> <<"G", "2", "8">>) @@ ("G90" :> <<"G", "9", "0">>) @@
    ("G91" :> <<"G", "9", "1">>) @@ ("G92" :> <<"G", "9", "2">>) @@ ("M2" :> <<"M", "2">>) @@
    ("M6" :> <<"M", "6">>)

CodeName(word) ==
    IF \E c \in DOMAIN CodeChars : CodeChars[c] = word
    THEN CHOOSE c \in DOMAIN CodeChars : CodeChars[c] = word
    ELSE "other"

\* the dictionary parse_line returned, as execute_command reads it
AsCommand(parsed) ==
    [command |-> CodeName(parsed.command), params |-> parsed.params, raw |-> parsed.raw]

\* the lines given to parse_line and execute_command in turn
RawLines ==
    { <<"g", "1", " ", "x", "4", " ", "y", "4", " ", "f", "2", ".", "5", " ", ";", " ", "l", "i", "n", "e">>,
      <<"G", "1", " ", "X", "1", " ", "F", "N", "A", "N">>,
      <<"G", "1", " ", "X", "N", "A", "N", " ", "F", "3">>,
      <<"G", "0", " ", "X", "1", "E", "9", "9", "9">>,
      <<"G", "2", " ", "X", "I", "N", "F", " ", "I", "1">>,
      <<"G", "1", " ", "X", "1">>,
      <<"G", "2", "8">>,
      <<"M", "6", " ", "T", "N", "A", "N">>,
      <<"M", "6", " ", "T", "1">>,
      <<"G", "9", "2", " ", "X", "N", "A", "N">>,
      <<"G", "1", " ", "X", "5", " ", "F", "-", "I", "N", "F">>,
      <<"G", "9", "9", " ", "X", "1">>,
      <<" ", " ", ";", " ", "n", "o", "t", "e">> }

\* the characters of the lines given to parse_line alone
Alphabet == {"g", "G", "x", "1", " ", ";"}

ShortLines == UNION { [1..n -> Alphabet] : n \in 0..MaxLen }

\* parameter tokens: numbers, a repeated key, a key alone, tails that are
\* no number
Tokens ==
    { <<"x", "1">>, <<"X", "2">>, <<"Y", "1">>, <<"X">>, <<"Y", "A">>,
      <<"X", "1", ".", "5", ".", "2">> }

RECURSIVE JoinTokens(_)
JoinTokens(tokens) ==
    IF tokens = <<>> THEN <<>> ELSE <<" ">> \o Head(tokens) \o JoinTokens(Tail(tokens))

\* a code followed by parameter tokens
TokenLines ==
    { <<"G", "1">> \o JoinTokens(tokens) :
        tokens \in UNION { [1..n -> Tokens] : n \in 0..MaxTokens } }

\* -------------------------------------------------------------- state
VARIABLES
    \* GCodeParser
    absolute_mode, units, current_pos, offset, feed_rate, home_pos, command_count,
    \* the last call of execute_command: its argument, the parser as it was
    \* when the call was made, and the value it returned
    cmd, before, result,
    \* SDCardExporter.process_gcode: its text, the line the loop is at,
    \* where the call stands, and its two lists
    gcode_text, script, line_num, pc, angle_list, error_log

parser_vars == <<absolute_mode, units, current_pos, offset, feed_rate, home_pos,
                 command_count>>

call_vars == <<cmd, before, result>>

exporter_vars == <<gcode_text, script, line_num, pc, angle_list, error_log>>

vars == <<parser_vars, call_vars, exporter_vars>>

\* the parser object
Parser ==
    [absolute_mode |-> absolute_mode,
     units         |-> units,
     current_pos   |-> current_pos,
     offset        |-> offset,
     feed_rate     |-> feed_rate,
     home_pos      |-> home_pos,
     command_count |-> command_count]

SetParser(p) ==
    /\ absolute_mode' = p.absolute_mode
    /\ units' = p.units
    /\ current_pos' = p.current_pos
    /\ offset' = p.offset
    /\ feed_rate' = p.feed_rate
    /\ home_pos' = p.home_pos
    /\ command_count' = p.command_count

NoCall == [command |-> "none"]

\* the call of reset, in the place of a command
ResetCall == [command |-> "reset"]

\* SDCardExporter.__init__: a new parser, empty lists
Init ==
    /\ absolute_mode = NewParser.absolute_mode
    /\ units = NewParser.units
    /\ current_pos = NewParser.current_pos
    /\ offset = NewParser.offset
    /\ feed_rate = NewParser.feed_rate
    /\ home_pos = NewParser.home_pos
    /\ command_count = NewParser.command_count
    /\ cmd = NoCall
    /\ before = NewParser
    /\ result = NoCall
    /\ gcode_text = <<>>
    /\ script = <<>>
    /\ line_num = 0
    /\ pc = "idle"
    /\ angle_list = <<>>
    /\ error_log = <<>>

\* parser.execute_command(c), called on the parser directly
ExecuteCommand(c) ==
    /\ command_count < MaxCommands
    /\ \E out \in {execute_command(Parser, c)} :
           /\ SetParser(out.parser)
           /\ result' = out.result
    /\ cmd' = c
    /\ before' = Parser
    /\ UNCHANGED exporter_vars

\* parser.reset(): the parser is as it was constructed
Reset ==
    /\ SetParser(reset(Parser))
    /\ cmd' = ResetCall
    /\ before' = Parser
    /\ result' = NoCall
    /\ UNCHANGED exporter_vars

Next ==
    \/ \E c \in Commands : ExecuteCommand(c)
    \/ Reset

Spec == Init /\ [][Next]_vars

\* gcode_text.strip().split('\n'): the lines of the text without its leading
\* and trailing blank lines; an empty text is one empty line
RECURSIVE DropLeadingBlank(_)
DropLeadingBlank(text) ==
    IF text # <<>> /\ Head(text) = BlankLine THEN DropLeadingBlank(Tail(text)) ELSE text

RECURSIVE DropTrailingBlank(_)
DropTrailingBlank(text) ==
    IF text # <<>> /\ text[Len(text)] = BlankLine
    THEN DropTrailingBlank(SubSeq(text, 1, Len(text) - 1))
    ELSE text

StripSplit(text) ==
    LET t == DropTrailingBlank(DropLeadingBlank(text))
    IN  IF t = <<>> THEN <<BlankLine>> ELSE t

\* process_gcode up to its loop: the lists are cleared, the home pair is
\* appended, the text is split into lines
ProcessGcode(text) ==
    /\ pc = "idle"
    /\ gcode_text' = text
    /\ script' = StripSplit(text)
    /\ line_num' = 0
    /\ angle_list' = <<<<SERVO1_HOME, SERVO2_HOME>>>>
    /\ error_log' = <<>>
    /\ pc' = "loop"
    /\ UNCHANGED <<parser_vars, call_vars>>

\* where the call stands after the body of the loop ran for line number k
AfterLine(k, stop) == IF stop \/ k = Len(script) THEN "done" ELSE "loop"

\* the pass over an empty or comment line counting the line as a command
SkipLine_Counted ==
    /\ pc = "loop"
    /\ line_num < Len(script)
    /\ script[line_num + 1].raw = "" \/ script[line_num + 1].command = ";"
    /\ line_num' = line_num + 1
    /\ command_count' = command_count + 1
    /\ pc' = IF line_num + 1 = Len(script) THEN "done" ELSE "loop"
    /\ UNCHANGED <<absolute_mode, units, current_pos, offset, feed_rate, home_pos>>
    /\ UNCHANGED <<call_vars, gcode_text, script, angle_list, error_log>>

\* one pass of the loop over an empty or comment line: continue
SkipLine ==
    /\ pc = "loop"
    /\ line_num < Len(script)
    /\ LET line == script[line_num + 1]
       IN  line.raw = "" \/ line.command = ";"
    /\ line_num' = line_num + 1
    /\ pc' = AfterLine(line_num + 1, FALSE)
    /\ UNCHANGED <<parser_vars, call_vars, gcode_text, script, angle_list, error_log>>

\* one pass of the loop over a command line: parse, execute, handle the
\* result; an END result breaks the loop, an exception is logged
RunLine(b) ==
    /\ pc = "loop"
    /\ line_num < Len(script)
    /\ LET line == script[line_num + 1] IN
       /\ ~(line.raw = "" \/ line.command = ";")
       /\ \E out \in {Xexecute_command(Parser, line)} :
          \E h \in {HandleOutcome(out.result, line, line_num + 1, angle_list, error_log)} :
           /\ SetParser(out.parser)
           /\ cmd' = line
           /\ before' = b
           /\ result' = out.result
           /\ angle_list' = h.angles
           /\ error_log' = h.log
           /\ pc' = AfterLine(line_num + 1, h.stop)
    /\ line_num' = line_num + 1
    /\ UNCHANGED <<gcode_text, script>>

\* the pass, before being the parser before the command
ProcessLine == RunLine(Parser)

NextExport ==
    \/ \E text \in Texts : ProcessGcode(text)
    \/ SkipLine
    \/ ProcessLine

SpecExport == Init /\ [][NextExport]_vars

\* parsed = parser.parse_line(line); result = parser.execute_command(parsed)
ParseAndExecute(line) ==
    /\ command_count < MaxCommands
    /\ gcode_text' = line
    /\ before' = Parser
    /\ \E parsed \in {parse_line(line)} :
         IF parsed = None
         THEN /\ cmd' = NoCall
              /\ result' = NoCall
              /\ UNCHANGED parser_vars
         ELSE \E out \in {Xexecute_command(Parser, AsCommand(parsed))} :
                /\ cmd' = AsCommand(parsed)
                /\ result' = out.result
                /\ SetParser(out.parser)
    /\ UNCHANGED <<script, line_num, pc, angle_list, error_log>>

NextRaw == \E line \in RawLines : ParseAndExecute(line)

SpecRaw == Init /\ [][NextRaw]_vars

\* parse_line on its own: any short line is given to it
InitParse ==
    /\ gcode_text \in ShortLines \cup TokenLines
    /\ absolute_mode = NewParser.absolute_mode
    /\ units = NewParser.units
    /\ current_pos = NewParser.current_pos
    /\ offset = NewParser.offset
    /\ feed_rate = NewParser.feed_rate
    /\ home_pos = NewParser.home_pos
    /\ command_count = NewParser.command_count
    /\ cmd = NoCall
    /\ before = NewParser
    /\ result = NoCall
    /\ script = <<>>
    /\ line_num = 0
    /\ pc = "idle"
    /\ angle_list = <<>>
    /\ error_log = <<>>

ParseLine ==
    /\ pc = "idle"
    /\ cmd' = parse_line(gcode_text)
    /\ pc' = "parsed"
    /\ UNCHANGED <<parser_vars, before, result, gcode_text, script, line_num, angle_list, error_log>>

NextParse == ParseLine

SpecParse == InitParse /\ [][NextParse]_vars

\* the points, lines and arcs given to the kinematics functions
Coords == { FromInt(i) : i \in (-MaxCoord)..MaxCoord }

KinPoints ==
    { [kind |-> "point", x |-> x, y |-> y, elbow_up |-> e] :
        x \in Coords, y \in Coords, e \in BOOLEAN }

Ends ==
    { <<FromInt(6), FromInt(6)>>, <<FromInt(6), FromInt(5)>>, <<FromInt(5), FromInt(5)>>,
      <<FromInt(4), FromInt(4)>>, <<FromTenths(1), FromTenths(1)>>, <<FromInt(-3), FromInt(2)>> }

KinLines ==
    { [kind |-> "line", x_start |-> s[1], y_start |-> s[2], x_end |-> e[1], y_end |-> e[2],
       segments_per_inch |-> d] : s \in Ends, e \in Ends, d \in {1, LINE_SEGMENTS_PER_INCH} }

KinArcs ==
    { [kind |-> "arc", x_start |-> s[1], y_start |-> s[2], x_end |-> e[1], y_end |-> e[2],
       x_center |-> c[1], y_center |-> c[2], clockwise |-> cw,
       segments_per_inch |-> ARC_SEGMENTS_PER_INCH] :
        s \in Ends, e \in Ends, c \in Ends, cw \in BOOLEAN }

InitKin ==
    /\ gcode_text \in KinPoints \cup KinLines \cup KinArcs
    /\ absolute_mode = NewParser.absolute_mode
    /\ units = NewParser.units
    /\ current_pos = NewParser.current_pos
    /\ offset = NewParser.offset
    /\ feed_rate = NewParser.feed_rate
    /\ home_pos = NewParser.home_pos
    /\ command_count = NewParser.command_count
    /\ cmd = NoCall
    /\ before = NewParser
    /\ result = NoCall
    /\ script = <<>>
    /\ line_num = 0
    /\ pc = "idle"
    /\ angle_list = <<>>
    /\ error_log = <<>>

\* what inverse_kinematics, forward_kinematics and is_reachable give for a
\* point
KinResult(x, y, elbow_up, error) ==
    IF error = "none"
    THEN [error |-> error, reachable |-> is_reachable(x, y),
          angles |-> inverse_kinematics(x, y, elbow_up),
          position |-> ForwardOf(inverse_kinematics(x, y, elbow_up))]
    ELSE [error |-> error, reachable |-> is_reachable(x, y)]

\* inverse_kinematics(x, y), forward_kinematics on its angles,
\* is_reachable(x, y), and the conversion of the point as a waypoint
InverseKinematics ==
    /\ pc = "idle"
    /\ gcode_text.kind = "point"
    /\ result' = KinResult(gcode_text.x, gcode_text.y, gcode_text.elbow_up,
                           ReachError(gcode_text.x, gcode_text.y))
    /\ \E c \in {ConvertWaypoints(<<<<gcode_text.x, gcode_text.y>>>>, 1, <<>>, <<>>)} :
          /\ angle_list' = c.angles
          /\ error_log' = c.log
    /\ pc' = "done"
    /\ UNCHANGED <<parser_vars, cmd, before, gcode_text, script, line_num>>

InterpolateLine ==
    /\ pc = "idle"
    /\ gcode_text.kind = "line"
    /\ result' = [waypoints |->
                     interpolate_line(gcode_text.x_start, gcode_text.y_start,
                                      gcode_text.x_end, gcode_text.y_end,
                                      gcode_text.segments_per_inch)]
    /\ pc' = "done"
    /\ UNCHANGED <<parser_vars, cmd, before, gcode_text, script, line_num, angle_list, error_log>>

ArcResult(a, start_angle, sweep) ==
    [waypoints |-> interpolate_arc(a.x_start, a.y_start, a.x_end, a.y_end,
                                   a.x_center, a.y_center, a.clockwise,
                                   a.segments_per_inch),
     start_angle |-> start_angle,
     end_angle |-> EndAngle(a),
     sweep |-> sweep,
     angles |-> ArcAngles(start_angle, sweep,
                          ArcSegments(ArcRadius(a), sweep, a.segments_per_inch))]

InterpolateArc ==
    /\ pc = "idle"
    /\ gcode_text.kind = "arc"
    /\ result' = ArcResult(gcode_text, StartAngle(gcode_text),
                           ArcSweep(StartAngle(gcode_text), EndAngle(gcode_text),
                                    gcode_text.clockwise))
    /\ pc' = "done"
    /\ UNCHANGED <<parser_vars, cmd, before, gcode_text, script, line_num, angle_list, error_log>>

NextKin ==
    \/ InverseKinematics
    \/ InterpolateLine
    \/ InterpolateArc

SpecKin == InitKin /\ [][NextKin]_vars

\* inverse_kinematics with the case of the origin before the reach checks
InverseCase_OriginFirst(L1, L2, r) ==
    IF r * 1000 < Unit THEN "origin"
    ELSE IF r > FAdd(L1, L2) THEN "out of reach"
    ELSE IF r < Abs(FSub(L1, L2)) THEN "too close"
    ELSE "angles"

\* SCARAKinematics(L1, L2).inverse_kinematics up to the computation of the
\* angles, for a target at distance r: the ValueError raised, "origin" for
\* the return of (0.0, 0.0), "angles" when the angles are computed
InverseCase(L1, L2, r) ==
    IF r > FAdd(L1, L2) THEN "out of reach"
    ELSE IF r < Abs(FSub(L1, L2)) THEN "too close"
    ELSE IF r * 1000 < Unit THEN "origin"
    ELSE "angles"

\* arms with equal and with unequal links, and targets from the origin
\* outwards
ArmTargets ==
    { [kind |-> "arm", L1 |-> l[1], L2 |-> l[2], x |-> FromInt(i), y |-> FromInt(j)] :
        l \in { <<FromInt(6), FromInt(6)>>, <<FromInt(5), FromInt(5)>>,
                <<FromInt(6), FromInt(4)>>, <<FromInt(4), FromInt(6)>>,
                <<FromInt(8), FromInt(2)>>, <<FromInt(6), FromTenths(55)>> },
        i \in 0..MaxCoord, j \in {0, 1} }

InitArm ==
    /\ gcode_text \in ArmTargets
    /\ absolute_mode = NewParser.absolute_mode
    /\ units = NewParser.units
    /\ current_pos = NewParser.current_pos
    /\ offset = NewParser.offset
    /\ feed_rate = NewParser.feed_rate
    /\ home_pos = NewParser.home_pos
    /\ command_count = NewParser.command_count
    /\ cmd = NoCall
    /\ before = NewParser
    /\ result = NoCall
    /\ script = <<>>
    /\ line_num = 0
    /\ pc = "idle"
    /\ angle_list = <<>>
    /\ error_log = <<>>

\* SCARAKinematics(L1, L2).inverse_kinematics(x, y)
InverseFor ==
    /\ pc = "idle"
    /\ result' = [command |-> "inverse_kinematics",
                  outcome |-> InverseCase(gcode_text.L1, gcode_text.L2,
                                          Radius(gcode_text.x, gcode_text.y))]
    /\ pc' = "done"
    /\ UNCHANGED <<parser_vars, cmd, before, gcode_text, script, line_num, angle_list, error_log>>

NextArm == InverseFor

SpecArm == InitArm /\ [][NextArm]_vars

\* config.SD_OUTPUT_FILE
SD_OUTPUT_FILE == "moves.txt"

\* f"{angle1},{angle2}\n": a line of the output file
FileLine(pair) == ToString(pair[1]) \o "," \o ToString(pair[2])

FileLines(angles) == [k \in 1..Len(angles) |-> FileLine(angles[k])]

\* no file, and None in the place of a path
NoFile == [exists |-> FALSE]

NoPath == "None"

\* the file after open(filename, 'w') and the writes of the first k lines
FileWith(angles, k) == [exists |-> TRUE, lines |-> FileLines(SubSeq(angles, 1, k))]

\* SDCardExporter.export_to_file: the path returned, the file, the error
\* log; io tells whether open raises, a write raises, or neither
export_to_file(angles, log, io, k) ==
    IF angles = <<>>
    THEN [filepath |-> NoPath, file |-> NoFile,
          log |-> Append(log, [error |-> "No angles to export"])]
    ELSE IF io = "open raises"
    THEN [filepath |-> NoPath, file |-> NoFile,
          log |-> Append(log, [error |-> "File write error"])]
    ELSE IF io = "write raises"
    THEN [filepath |-> NoPath, file |-> FileWith(angles, k),
          log |-> Append(log, [error |-> "File write error"])]
    ELSE [filepath |-> SD_OUTPUT_FILE, file |-> FileWith(angles, Len(angles)), log |-> log]

\* what gcode_to_sd_card returns, (success, filepath, errors), and the file
CardResult(success, filepath, errors, file) ==
    [command |-> "gcode_to_sd_card", success |-> success, filepath |-> filepath,
     errors |-> errors, file |-> file]

\* the end of gcode_to_sd_card for what export_to_file gave
CardExported(e) ==
    IF e.filepath # NoPath
    THEN CardResult(TRUE, e.filepath, <<>>, e.file)
    ELSE CardResult(FALSE, NoPath, e.log, e.file)

\* gcode_to_sd_card exporting whatever process_gcode logged
gcode_to_sd_card_Always(angles, log, io, k) ==
    CardExported(export_to_file(angles, log, io, k))

\* gcode_to_sd_card after process_gcode returned angles and log
gcode_to_sd_card(angles, log, io, k) ==
    IF log # <<>>
    THEN CardResult(FALSE, NoPath, log, NoFile)
    ELSE CardExported(export_to_file(angles, log, io, k))

\* gcode_to_sd_card after its call of process_gcode returned: the check of
\* the errors and the export; a write that raises leaves no line or all
\* lines but the last in the file
GcodeToSdCard(io) ==
    /\ pc = "done"
    /\ \E k \in {0, Len(angle_list) - 1} :
           result' = gcode_to_sd_card(angle_list, error_log, io, k)
    /\ error_log' = result'.errors
    /\ cmd' = [command |-> "gcode_to_sd_card"]
    /\ pc' = "returned"
    /\ UNCHANGED <<parser_vars, before, gcode_text, script, line_num, angle_list>>

NextCard ==
    \/ \E text \in Texts : ProcessGcode(text)
    \/ SkipLine
    \/ ProcessLine
    \/ \E io \in {"ok", "open raises", "write raises"} : GcodeToSdCard(io)

\* gcode_to_sd_card(text): a new exporter, process_gcode, the export
SpecCard == Init /\ [][NextCard]_vars

\* process_gcode as a function of the parser at entry and the text: the
\* loop over the lines from line k on, with the lists built so far
RECURSIVE RunLines(_, _, _, _, _)
RunHandled(out, h, lines, k) ==
    IF h.stop \/ k = Len(lines)
    THEN [parser |-> out.parser, angles |-> h.angles, log |-> h.log]
    ELSE RunLines(out.parser, lines, k + 1, h.angles, h.log)

RunExecuted(out, lines, k, angles, log) ==
    RunHandled(out, HandleOutcome(out.result, lines[k], k, angles, log), lines, k)

RunLines(p, lines, k, angles, log) ==
    IF k > Len(lines) THEN [parser |-> p, angles |-> angles, log |-> log]
    ELSE IF lines[k].raw = "" \/ lines[k].command = ";"
    THEN RunLines(p, lines, k + 1, angles, log)
    ELSE RunExecuted(Xexecute_command(p, lines[k]), lines, k, angles, log)

\* SDCardExporter.process_gcode on an exporter whose parser is p
process_gcode(p, text) ==
    RunLines(p, StripSplit(text), 1, <<<<SERVO1_HOME, SERVO2_HOME>>>>, <<>>)

\* the scripts given to one exporter, one after the other
AgainTexts ==
    { <<>>,
      <<Cmd("G21", NoParams, "G21")>>,
      <<Cmd("G91", NoParams, "G91")>>,
      <<Cmd("G91", NoParams, "G91"), Cmd("G90", NoParams, "G90")>>,
      <<Cmd("G0", ("X" :> FromInt(4) @@ "Y" :> FromInt(4)), "G0 X4 Y4")>>,
      <<Cmd("G0", ("X" :> FromInt(4) @@ "Y" :> FromInt(4)), "G0 X4 Y4"),
        Cmd("M2", NoParams, "M2"), Cmd("G28", NoParams, "G28")>>,
      <<Cmd("G92", ("X" :> FromInt(5) @@ "Y" :> FromInt(8)), "G92 X5 Y8")>>,
      <<Cmd("G1", ("X" :> FromInt(6) @@ "F" :> FromInt(5)), "G1 X6 F5")>>,
      <<CommentLine,
        Cmd("G1", ("X" :> FromInt(9) @@ "Y" :> FromInt(9) @@ "F" :> FromInt(2)),
            "G1 X9 Y9 F2")>>,
      <<Cmd("G2", ("X" :> FromInt(9) @@ "Y" :> FromInt(6) @@ "I" :> FromTenths(15)
                   @@ "J" :> FromTenths(15)), "G2 X9 Y6 I1.5 J1.5")>>,
      <<Cmd("G28", NoParams, "G28"), Cmd("M2", NoParams, "M2")>> }

\* process_gcode resetting the parser at entry
ProcessGcodeAgain_Reset(text) ==
    /\ pc = "idle" \/ (pc = "done" /\ before = NewParser)
    /\ SetParser(NewParser)
    /\ before' = NewParser
    /\ cmd' = NoCall
    /\ result' = NoCall
    /\ gcode_text' = text
    /\ script' = StripSplit(text)
    /\ line_num' = 0
    /\ angle_list' = <<<<SERVO1_HOME, SERVO2_HOME>>>>
    /\ error_log' = <<>>
    /\ pc' = "loop"

\* process_gcode up to its loop, called on a new exporter or on one whose
\* first call returned; before is the parser at entry
ProcessGcodeAgain(text) ==
    /\ pc = "idle" \/ (pc = "done" /\ before = NewParser)
    /\ before' = Parser
    /\ cmd' = NoCall
    /\ result' = NoCall
    /\ gcode_text' = text
    /\ script' = StripSplit(text)
    /\ line_num' = 0
    /\ angle_list' = <<<<SERVO1_HOME, SERVO2_HOME>>>>
    /\ error_log' = <<>>
    /\ pc' = "loop"
    /\ UNCHANGED parser_vars

\* the calls of process_gcode on one exporter and the passes of their loops
NextAgain ==
    \/ \E text \in AgainTexts : ProcessGcodeAgain(text)
    \/ SkipLine
    \/ RunLine(before)

SpecAgain == Init /\ [][NextAgain]_vars

\* a parser some commands were executed on, then one move command executed
\* again and again
\* the commands that bring the parser where the repetition starts: a move
\* or none, a G92 or none, G91 or not
DriftSetups ==
    { m \o o \o i :
        m \in {<<>>, <<Cmd("G0", ("X" :> FromInt(4) @@ "Y" :> FromInt(4)), "G0 X4 Y4")>>},
        o \in {<<>>,
               <<Cmd("G92", ("X" :> FromInt(5) @@ "Y" :> FromInt(8)), "G92 X5 Y8")>>,
               <<Cmd("G92", ("X" :> FromTenths(65)), "G92 X6.5")>>,
               <<Cmd("G92", ("X" :> FromInt(0) @@ "Y" :> FromInt(0)), "G92 X0 Y0")>>},
        i \in {<<>>, <<Cmd("G91", NoParams, "G91")>>} }

\* the parser after execute_command was called for each command of cmds
RECURSIVE AfterAll(_, _)
AfterAll(p, cmds) ==
    IF cmds = <<>> THEN p
    ELSE AfterAll(execute_command(p, Head(cmds)).parser, Tail(cmds))

\* the moves that are repeated: without X and Y, and with X0 Y0
DriftCommands ==
    { Cmd("G0", NoParams, "G0"),
      Cmd("G1", ("F" :> FromInt(3)), "G1 F3"),
      Cmd("G2", ("I" :> FromInt(1)), "G2 I1"),
      Cmd("G3", NoParams, "G3"),
      Cmd("G1", ("X" :> 0 @@ "Y" :> 0), "G1 X0 Y0"),
      Cmd("G3", ("X" :> 0 @@ "Y" :> 0 @@ "J" :> FromInt(1)), "G3 X0 Y0 J1") }

InitDrift ==
    /\ \E s \in DriftSetups : before = AfterAll(NewParser, s)
    /\ absolute_mode = before.absolute_mode
    /\ units = before.units
    /\ current_pos = before.current_pos
    /\ offset = before.offset
    /\ feed_rate = before.feed_rate
    /\ home_pos = before.home_pos
    /\ command_count = before.command_count
    /\ cmd = NoCall
    /\ result = NoCall
    /\ gcode_text = <<>>
    /\ script = <<>>
    /\ line_num = 0
    /\ pc = "idle"
    /\ angle_list = <<>>
    /\ error_log = <<>>

\* parser.execute_command(c) once more; before stays the parser the
\* repetition started from
Repeat(c) ==
    /\ command_count - before.command_count < MaxCommands
    /\ cmd \in {NoCall, c}
    /\ \E out \in {execute_command(Parser, c)} :
           /\ SetParser(out.parser)
           /\ result' = out.result
    /\ cmd' = c
    /\ UNCHANGED <<before, exporter_vars>>

NextDrift == \E c \in DriftCommands : Repeat(c)

SpecDrift == InitDrift /\ [][NextDrift]_vars

\* ------------------------------------------------------------- claims
HomePair == <<SERVO1_HOME, SERVO2_HOME>>

Params == cmd.params

IsLinear == cmd.command \in {"G0", "G1"}

IsPlainHome == cmd.command = "G28" /\ "X" \notin DOMAIN Params /\ "Y" \notin DOMAIN Params

LastOf(seq) == seq[Len(seq)]

\* C1: after G92 X0 Y0 was executed with the arm at (4,4) (which leaves
\* offset (4,4) and the reported position (0,0)), an absolute G1 X2 Y2 moves
\* the arm to (6,6): current_pos and the last waypoint are (6,6).
C1_OffsetMoveGoesTo66 ==
    ( /\ cmd.command = "G1"
      /\ DOMAIN Params = {"X", "Y"}
      /\ Params["X"] = FromInt(2) /\ Params["Y"] = FromInt(2)
      /\ before.absolute_mode
      /\ before.current_pos = [x |-> FromInt(4), y |-> FromInt(4)]
      /\ before.offset = [x |-> FromInt(4), y |-> FromInt(4)] )
    => /\ current_pos = [x |-> FromInt(6), y |-> FromInt(6)]
       /\ LastOf(result.waypoints) = <<FromInt(6), FromInt(6)>>

\* C2: the actuator sequence process_gcode returns is not empty, its first
\* element is the home pair, and when the loop stopped at an M2 line its last
\* element is the home pair too.
M2Reached == line_num >= 1 /\ script[line_num].command = "M2"

C2_HomeFirstAndLast ==
    pc = "done" =>
        /\ Len(angle_list) >= 1
        /\ angle_list[1] = HomePair
        /\ M2Reached => LastOf(angle_list) = HomePair

C2_Witness ==
    /\ pc = "done"
    /\ M2Reached
    /\ line_num = 2
    /\ Len(angle_list) > 3
    /\ angle_list[2] # HomePair

\* the command lines among the first n lines of the script
CommandLines(n) == {k \in 1..n : ~(script[k].raw = "" \/ script[k].command = ";")}

\* C3: once the loop has executed an M2 line it has appended the home pair
\* and stopped: the loop never goes past that line, so the M2 is the last
\* command executed, the sequence ends with the home pair, and command_count
\* counts the command lines up to and including the M2 only.
C3_StopsAtM2 ==
    \A k \in 1..Len(script) :
        (script[k].command = "M2" /\ line_num >= k) =>
            /\ line_num = k
            /\ pc = "done"
            /\ cmd = script[k]
            /\ result.command = "END"
            /\ LastOf(angle_list) = HomePair
            /\ command_count = Cardinality(CommandLines(k))
            /\ before.command_count = command_count - 1

C3_Witness ==
    /\ Len(script) = 2
    /\ script[1].command = "M2"
    /\ script[2].command = "G1"
    /\ pc = "done"
    /\ line_num = 1

\* how many of the first k waypoints of w are within reach, and how many
\* are not
ReachableAmong(w, k) == Cardinality({j \in 1..k : is_reachable(w[j][1], w[j][2])})

UnreachableAmong(w, k) == k - ReachableAmong(w, k)

\* C4: for a MOVE_LINEAR, MOVE_ARC or HOME result every waypoint gives, in
\* order, exactly one pair (when it is within reach) and no log entry, or
\* exactly one log entry with the line number and the coordinates (when it
\* is not) and no pair; an unreachable waypoint ends neither the line nor
\* the loop.
C4_Step ==
    /\ pc = "loop"
    /\ line_num' = line_num + 1
    /\ ~(script[line_num'].raw = "" \/ script[line_num'].command = ";")
    /\ result'.command \in {"MOVE_LINEAR", "MOVE_ARC", "HOME"}

C4_Effect ==
    LET w == WaypointsOf(result')
        n == Len(w)
    IN  /\ Len(angle_list') = Len(angle_list) + ReachableAmong(w, n)
        /\ Len(error_log') = Len(error_log) + UnreachableAmong(w, n)
        /\ SubSeq(angle_list', 1, Len(angle_list)) = angle_list
        /\ SubSeq(error_log', 1, Len(error_log)) = error_log
        /\ \A k \in 1..n :
              IF is_reachable(w[k][1], w[k][2])
              THEN LET pair == angle_list'[Len(angle_list) + ReachableAmong(w, k)]
                   IN  /\ pair[1] \in SERVO1_MIN..SERVO1_MAX
                       /\ pair[2] \in SERVO2_MIN..SERVO2_MAX
                       /\ pair = ServoPair(w[k][1], w[k][2])
              ELSE LET entry == error_log'[Len(error_log) + UnreachableAmong(w, k)]
                   IN  /\ entry.line = line_num'
                       /\ entry.x = Fmt2(w[k][1])
                       /\ entry.y = Fmt2(w[k][2])
        /\ pc' = "loop" \/ line_num' = Len(script)

C4_WaypointOutcomes == [][C4_Step => C4_Effect]_vars

C4_Witness ==
    /\ line_num = 2
    /\ result.command = "HOME"
    /\ "waypoints" \in DOMAIN result
    /\ ~is_reachable(result.waypoints[1][1], result.waypoints[1][2])
    /\ is_reachable(LastOf(result.waypoints)[1], LastOf(result.waypoints)[2])
    /\ \E e \in 1..Len(error_log) : error_log[e].line = 2
    /\ \E e \in 1..Len(error_log) : error_log[e].line = 1
    /\ LastOf(angle_list) = ServoPair(HOME_X, HOME_Y)

\* C5: every pair of the actuator sequence is a pair of whole degrees
\* within the limits of its servo.
C5_PairsWithinLimits ==
    \A k \in 1..Len(angle_list) :
        /\ angle_list[k][1] \in SERVO1_MIN..SERVO1_MAX
        /\ angle_list[k][2] \in SERVO2_MIN..SERVO2_MAX

\* the call has returned and a pair of the sequence came from a waypoint
\* whose shoulder angle was below the limit before the clamp
C5_Witness ==
    /\ pc = "done"
    /\ result.command = "MOVE_LINEAR"
    /\ \E k \in 1..Len(result.waypoints) :
          LET q == result.waypoints[k]
          IN  /\ is_reachable(q[1], q[2])
              /\ inverse_kinematics(q[1], q[2], TRUE)[1] < 0
              /\ \E j \in 1..Len(angle_list) : angle_list[j] = ServoPair(q[1], q[2])

\* the position a G0/G1 is to reach on one axis, as the claim gives it
C6_Target(key, axis) ==
    IF before.absolute_mode
    THEN FSub(IF key \in DOMAIN Params THEN Params[key] ELSE before.current_pos[axis],
              before.offset[axis])
    ELSE FSub(FAdd(before.current_pos[axis],
                   IF key \in DOMAIN Params THEN Params[key] ELSE 0),
              before.offset[axis])

\* C6: after G0/G1 the position is, per axis, (the parameter, or the current
\* coordinate when it is absent) minus the offset in absolute mode, and
\* (the current coordinate plus the parameter, 0 when absent) minus the
\* offset in incremental mode.
C6_LinearTarget ==
    IsLinear =>
        /\ current_pos.x = C6_Target("X", "x")
        /\ current_pos.y = C6_Target("Y", "y")

\* an incremental move that names one axis only, with an offset in effect
C6_Witness ==
    /\ IsLinear
    /\ ~before.absolute_mode
    /\ "X" \notin DOMAIN Params /\ "Y" \in DOMAIN Params
    /\ before.offset.x # 0
    /\ current_pos.x # before.current_pos.x

\* C7: for every G0/G1 and every G28 without parameters the first waypoint
\* of the result is the position before the command and the last waypoint
\* is the position after it.
C7_MoveEndsWherePositionIs ==
    (IsLinear \/ IsPlainHome) =>
        /\ result.waypoints[1] = <<before.current_pos.x, before.current_pos.y>>
        /\ LastOf(result.waypoints) = <<current_pos.x, current_pos.y>>

\* C8: G92 without parameters sets the offset to (0,0); G92 with parameters
\* sets it, per axis, to the current coordinate minus the parameter, a
\* missing X or Y being replaced by the current coordinate.
C8_SetPosition ==
    cmd.command = "G92" =>
        IF DOMAIN Params = {}
        THEN offset = [x |-> 0, y |-> 0]
        ELSE /\ offset.x = FSub(before.current_pos.x,
                                IF "X" \in DOMAIN Params THEN Params["X"]
                                ELSE before.current_pos.x)
             /\ offset.y = FSub(before.current_pos.y,
                                IF "Y" \in DOMAIN Params THEN Params["Y"]
                                ELSE before.current_pos.y)

\* a G92 with parameters that sets a new offset on both axes
C8_Witness ==
    /\ cmd.command = "G92"
    /\ DOMAIN Params = {"X", "Y"}
    /\ before.offset.x # 0
    /\ offset.x # before.offset.x
    /\ offset.y # 0

\* a G92 that carries parameters but neither X nor Y
C8_WitnessNoAxis ==
    /\ cmd.command = "G92"
    /\ DOMAIN Params = {"F"}
    /\ before.offset.x # 0
    /\ offset = [x |-> 0, y |-> 0]

\* C9: a G92 that names one axis only leaves the offset of the other axis
\* as it was.
C9_OtherAxisKept ==
    /\ (cmd.command = "G92" /\ DOMAIN Params \cap {"X", "Y"} = {"X"})
           => offset.y = before.offset.y
    /\ (cmd.command = "G92" /\ DOMAIN Params \cap {"X", "Y"} = {"Y"})
           => offset.x = before.offset.x

\* C10: right after G92 Xa Yb, get_current_position() is (a, b), and
\* current_pos is what it was.
C10_ReportsRequested ==
    (cmd.command = "G92" /\ {"X", "Y"} \subseteq DOMAIN Params) =>
        /\ get_current_position(Parser) = [x |-> Params["X"], y |-> Params["Y"]]
        /\ current_pos = before.current_pos

\* C11: absolute_mode is false exactly when a G90 or G91 was executed since
\* construction or reset and the last of them was G91.  Stated on the last
\* command: true when no command was executed yet, false after G91, true
\* after G90, and as it was before any other command.
C11_ModeIsLastModeCommand ==
    /\ cmd \in {NoCall, ResetCall} => absolute_mode
    /\ cmd.command = "G91" => ~absolute_mode
    /\ cmd.command = "G90" => absolute_mode
    /\ cmd.command \notin {"none", "reset", "G90", "G91"} =>
           absolute_mode = before.absolute_mode

\* a command other than G90/G91 executed in incremental mode, two commands
\* after the parser was constructed
C11_Witness ==
    /\ cmd.command \in {"G0", "G92", "G28", "M2"}
    /\ ~absolute_mode
    /\ command_count = 3

\* the record of the parser after a command that changes nothing but the
\* counter
CountedOnly == [before EXCEPT !.command_count = before.command_count + 1]

IsHomeWithAxis ==
    cmd.command = "G28" /\ ("X" \in DOMAIN Params \/ "Y" \in DOMAIN Params)

\* a pass of the loop of process_gcode over a command line
CommandStep ==
    /\ pc = "loop"
    /\ line_num' = line_num + 1
    /\ ~(script[line_num'].raw = "" \/ script[line_num'].command = ";")

\* C13: G28 with an X or Y parameter returns a HOME result that has no
\* waypoints and changes nothing of the parser but command_count; in
\* process_gcode such a line appends no pair and no log entry.
C13_HomeWithAxisResult ==
    IsHomeWithAxis =>
        /\ result.command = "HOME"
        /\ "waypoints" \notin DOMAIN result
        /\ result.home = <<home_pos.x, home_pos.y>>
        /\ Parser = CountedOnly

C13_HomeWithAxisAppends ==
    (CommandStep /\ IsHomeWithAxis') =>
        (angle_list' = angle_list /\ error_log' = error_log)

C14_PlainHome ==
    IsPlainHome =>
        /\ current_pos = [x |-> HOME_X, y |-> HOME_Y]
        /\ current_pos = home_pos
        /\ offset = before.offset
        /\ result.command = "HOME"
        /\ result.waypoints = interpolate_line(before.current_pos.x, before.current_pos.y,
                                               HOME_X, HOME_Y, LINE_SEGMENTS_PER_INCH)
        /\ result.waypoints[1] = <<before.current_pos.x, before.current_pos.y>>

\* a G28 away from home with an offset in effect
C14_Witness ==
    /\ IsPlainHome
    /\ before.offset.x # 0
    /\ before.current_pos.x # HOME_X
    /\ Len(result.waypoints) > 3

IsArc == cmd.command \in {"G2", "G3"}

\* C15: for G2/G3 the center is the position before the move plus (I, J),
\* a missing I or J being 0, the target is the one G0/G1 would reach, and
\* the position after the command is that target.
C15_ArcCenterAndTarget ==
    IsArc =>
        /\ result.center =
              <<FAdd(before.current_pos.x, IF "I" \in DOMAIN Params THEN Params["I"] ELSE 0),
                FAdd(before.current_pos.y, IF "J" \in DOMAIN Params THEN Params["J"] ELSE 0)>>
        /\ current_pos.x = C6_Target("X", "x")
        /\ current_pos.y = C6_Target("Y", "y")

\* an arc with J only, started away from home with an offset in effect
C15_Witness ==
    /\ IsArc
    /\ "I" \notin DOMAIN Params /\ "J" \in DOMAIN Params
    /\ before.offset.x # 0
    /\ before.current_pos # [x |-> HOME_X, y |-> HOME_Y]
    /\ current_pos # before.current_pos

IsDwell == cmd.command = "G4"

\* the duration of the dwell line executed last: its P, or 0
DwellSeconds == IF "P" \in DOMAIN Params THEN Params["P"] ELSE 0

\* n copies of the last pair of the list
CopiesOfLast(angles, n) == [k \in 1..n |-> LastOf(angles)]

\* C16: in process_gcode a G4 line with P > 0 appends floor(2 * P) copies of
\* the last pair of the output, and with P <= 0 or without P appends
\* nothing; a dwell adds no log entry and changes nothing of the parser
\* but command_count.
C16_DwellStep ==
    (CommandStep /\ IsDwell') =>
        /\ error_log' = error_log
        /\ Parser' = CountedOnly'
        /\ angle_list' = IF DwellSeconds' > 0
                          THEN angle_list \o CopiesOfLast(angle_list, FInt(FMul(DwellSeconds', FromInt(2))))
                          ELSE angle_list

C16_Dwell == [][C16_DwellStep]_vars

\* the exception a command line ended with, "none" when it ended well
RaisedBy(res) == HandlingError(res)

\* a is the beginning of b
IsPrefix(a, b) == Len(a) <= Len(b) /\ SubSeq(b, 1, Len(a)) = a

\* the lines before line k hold no M2
FirstM2(k) == \A j \in 1..(k - 1) : script[j].command # "M2"

\* C18: process_gcode never raises and never aborts.  The call ends only
\* after the last line of the script or after its first M2; a line whose
\* handling fails adds one log entry with the number of the line, adds no
\* pair, and the loop goes on with the next line; nothing a line produced
\* is taken out of the two lists again.
C18_EndsAtEndOrM2 ==
    pc = "done" => (line_num = Len(script) \/ (M2Reached /\ FirstM2(line_num)))

C18_FailureStep ==
    (CommandStep /\ RaisedBy(result') # "none") =>
        /\ angle_list' = angle_list
        /\ Len(error_log') = Len(error_log) + 1
        /\ IsPrefix(error_log, error_log')
        /\ LastOf(error_log').line = line_num'
        /\ LastOf(error_log').error = RaisedBy(result')
        /\ pc' = IF line_num' = Len(script) THEN "done" ELSE "loop"

C18_ListsGrow ==
    pc = "loop" => (IsPrefix(angle_list, angle_list') /\ IsPrefix(error_log, error_log'))

C18_ContinuesOnError ==
    /\ []C18_EndsAtEndOrM2
    /\ [][C18_FailureStep]_vars
    /\ [][C18_ListsGrow]_vars

\* a script whose first line raised and whose second line was executed and
\* gave pairs
C18_Witness ==
    /\ pc = "done"
    /\ line_num = 2
    /\ Len(error_log) = 1
    /\ error_log[1].line = 1
    /\ error_log[1].error = "ValueError"
    /\ result.command = "MOVE_LINEAR"
    /\ Len(angle_list) > 1

KnownCodes ==
    {"G0", "G1", "G2", "G3", "G4", "G20", "G21", "G28", "G90", "G91", "G92", "M2", "M6"}

IsUnknownCode == cmd.command \notin KnownCodes \cup {"none", ";", ""}

\* C19: a line whose code is none of the thirteen known ones gives an
\* UNKNOWN result with the raw text of the line and changes nothing of the
\* parser but command_count; in process_gcode it appends no pair and the
\* loop goes on with the next line.
C19_UnknownResult ==
    IsUnknownCode =>
        /\ result = [command |-> "UNKNOWN", raw |-> cmd.raw]
        /\ Parser = CountedOnly

C19_UnknownStep ==
    (CommandStep /\ IsUnknownCode') =>
        /\ angle_list' = angle_list
        /\ pc' = IF line_num' = Len(script) THEN "done" ELSE "loop"

C19_UnknownCode == []C19_UnknownResult /\ [][C19_UnknownStep]_vars

\* an unknown code on the first line, the second line about to be read
C19_Witness ==
    /\ IsUnknownCode
    /\ result.command = "UNKNOWN"
    /\ line_num = 1
    /\ Len(script) = 2
    /\ pc = "loop"
    /\ command_count = 1

IsMove == cmd.command \in {"G0", "G1", "G2", "G3"}

\* min(F, MAX_FEED_RATE): the smaller of the two numbers
CappedFeed(f) == IF XLt(f, MAX_FEED_RATE) THEN f ELSE MAX_FEED_RATE

\* C12: a G0/G1/G2/G3 with F sets feed_rate to min(F, MAX_FEED_RATE), no
\* other command changes feed_rate, so feed_rate <= MAX_FEED_RATE in every
\* state; the speed G0 reports is MAX_FEED_RATE, the speed G1/G2/G3 report
\* is feed_rate after the command.
C12_FeedRateCapped ==
    /\ ~IsNaN(feed_rate) /\ feed_rate <= MAX_FEED_RATE
    /\ (IsMove /\ "F" \in DOMAIN Params) => feed_rate = CappedFeed(Params["F"])
    /\ ~(IsMove /\ "F" \in DOMAIN Params) => feed_rate = before.feed_rate
    /\ (cmd.command = "G0" /\ result.command # "raised") => result.speed = MAX_FEED_RATE
    /\ (cmd.command \in {"G1", "G2", "G3"} /\ result.command # "raised") =>
           result.speed = feed_rate

\* C17: parse_line followed by execute_command never raises, whatever the
\* line and the state of the parser are.
C17_NeverRaises == result.command # "raised"

\* the word a text begins with, spaces before it passed over
IsFirstWord(w, s) ==
    \E i \in 1..Len(s) : \E j \in i..Len(s) :
        /\ w = SubSeq(s, i, j)
        /\ \A k \in 1..(i - 1) : s[k] = " "
        /\ \A k \in i..j : s[k] # " "
        /\ j = Len(s) \/ s[j + 1] = " "

LowerOf(c) == IF IsIn(c, UpperCase) THEN LowerCase[Find(UpperCase, c)] ELSE c

Lower(s) == [i \in 1..Len(s) |-> LowerOf(s[i])]

\* the text up to its first ";", the whole text when it has none
UpToSemicolon(s) ==
    IF \E i \in 1..Len(s) : s[i] = ";"
    THEN SubSeq(s, 1, (CHOOSE i \in 1..Len(s) : s[i] = ";" /\ \A j \in 1..(i - 1) : s[j] # ";") - 1)
    ELSE s

\* lines that differ from the line in letter case or in the comment only
Variants(line) ==
    { Upper(line), Lower(line), UpToSemicolon(line),
      UpToSemicolon(line) \o <<";">>,
      UpToSemicolon(line) \o <<";", " ", "g", "1", " ", "x", "1", ";">>,
      Lower(UpToSemicolon(line)) \o <<" ", ";", "X", "1">> }

SameCodeAndParams(a, b) == a.command = b.command /\ a.params = b.params

\* C20: parse_line discards the line from its first ";" on and returns
\* None exactly when what is left is empty or whitespace only; otherwise
\* the command is the first whitespace-separated word in upper case, so
\* lines that differ in letter case or in the comment only give the same
\* command and the same parameters.
C20_CommentAndCase ==
    pc = "parsed" =>
        /\ cmd = parse_line(UpToSemicolon(gcode_text))
        /\ cmd = None <=> (\A i \in 1..Len(UpToSemicolon(gcode_text)) : UpToSemicolon(gcode_text)[i] = " ")
        /\ cmd # None => IsFirstWord(cmd.command, Upper(UpToSemicolon(gcode_text)))
        /\ \A v \in Variants(gcode_text) : SameCodeAndParams(parse_line(v), cmd)

\* a lower-case command with a parameter, followed by a comment
C20_Witness ==
    /\ pc = "parsed"
    /\ gcode_text = <<"g", " ", "x", "1", ";">>
    /\ cmd.command = <<"G">>
    /\ DOMAIN cmd.params = {"X"}

\* the tokens of the line after its code
TokensAfterCode(line) == Tail(Split(Upper(Strip(UpToSemicolon(line)))))

\* token number i gives a parameter: two characters or more, the tail a
\* number
GivesParam(tokens, i) == Len(tokens[i]) >= 2 /\ ParseFloat(Tail(tokens[i])).ok

\* the last token that gives a parameter with the key
LastGiving(tokens, key) ==
    CHOOSE i \in 1..Len(tokens) :
        /\ GivesParam(tokens, i) /\ tokens[i][1] = key
        /\ \A j \in (i + 1)..Len(tokens) : ~(GivesParam(tokens, j) /\ tokens[j][1] = key)

\* C21: the parameter map holds exactly the first characters of the
\* tokens after the code that have two characters or more and a numeric
\* tail, each with the number of the last such token; tokens of one
\* character or with a tail that is no number change nothing.
C21_ParamsFromTokens ==
    (pc = "parsed" /\ cmd # None) =>
        /\ \A key \in DOMAIN cmd.params :
              \E i \in 1..Len(TokensAfterCode(gcode_text)) :
                  GivesParam(TokensAfterCode(gcode_text), i)
                      /\ TokensAfterCode(gcode_text)[i][1] = key
        /\ \A i \in 1..Len(TokensAfterCode(gcode_text)) :
              GivesParam(TokensAfterCode(gcode_text), i) =>
                  /\ TokensAfterCode(gcode_text)[i][1] \in DOMAIN cmd.params
                  /\ cmd.params[TokensAfterCode(gcode_text)[i][1]] =
                        ParseFloat(Tail(TokensAfterCode(gcode_text)
                            [LastGiving(TokensAfterCode(gcode_text), TokensAfterCode(gcode_text)[i][1])])).value

\* X given twice with a dropped token between, Y dropped
C21_Witness ==
    /\ pc = "parsed"
    /\ gcode_text = <<"G", "1", " ", "x", "1", " ", "Y", "A", " ", "X", "2">>
    /\ DOMAIN cmd.params = {"X"}
    /\ cmd.params["X"] = FromInt(2)

\* the command lines of the script up to its first M2
CountedLines ==
    {k \in CommandLines(Len(script)) : \A j \in 1..(k - 1) : script[j].command # "M2"}

\* C22: every execute_command of a parsed command, whatever its code is
\* and however it ends, adds exactly 1 to command_count and nothing else
\* changes it; process_gcode adds the number of lines that are not blank,
\* not a comment and not after the first M2.
C22_CountStep ==
    IF CommandStep THEN command_count' = command_count + 1
    ELSE command_count' = command_count

C22_CountOfCall ==
    /\ cmd # NoCall => command_count = before.command_count + 1
    /\ command_count = Cardinality(CommandLines(line_num))
    /\ pc = "done" => command_count = Cardinality(CountedLines)

C22_CommandCount == []C22_CountOfCall /\ [][C22_CountStep]_vars

\* a script of an unknown code and a command that raises
C22_Witness ==
    /\ pc = "done"
    /\ Len(script) = 2
    /\ script[1].command = "G99"
    /\ result.command = "raised"
    /\ command_count = 2

\* C23: reset puts the parser in the state it was constructed in: absolute
\* mode, default units, position and home at (HOME_X, HOME_Y), offset
\* (0, 0), DEFAULT_FEED_RATE, command_count 0; the command after a reset
\* gives what it gives on a new parser.
C23_AfterReset ==
    cmd = ResetCall =>
        /\ absolute_mode
        /\ units = DEFAULT_UNITS
        /\ current_pos = [x |-> HOME_X, y |-> HOME_Y]
        /\ home_pos = [x |-> HOME_X, y |-> HOME_Y]
        /\ offset = [x |-> 0, y |-> 0]
        /\ feed_rate = DEFAULT_FEED_RATE
        /\ command_count = 0
        /\ Parser = NewParser

\* the command executed last started from the state reset leaves
C23_CommandAfterReset ==
    (cmd \notin {NoCall, ResetCall} /\ before = NewParser) =>
        [parser |-> Parser, result |-> result] = execute_command(NewParser, cmd)

C23_ResetRestores == C23_AfterReset /\ C23_CommandAfterReset

\* a reset after three commands that changed mode, position, feed rate and
\* offset
C23_Witness ==
    /\ cmd = ResetCall
    /\ before.command_count = 3
    /\ ~before.absolute_mode
    /\ before.current_pos # [x |-> HOME_X, y |-> HOME_Y]
    /\ before.feed_rate # DEFAULT_FEED_RATE
    /\ before.offset # [x |-> 0, y |-> 0]

IsPointDone == pc = "done" /\ gcode_text.kind = "point"

\* r = sqrt(x^2 + y^2) of the point given
PointRadius == Radius(gcode_text.x, gcode_text.y)

\* C24: inverse_kinematics fails exactly when r > max_reach (out of reach)
\* or r < min_reach (too close), is_reachable is true exactly when it
\* succeeds, and a waypoint gives an actuator pair exactly when it lies in
\* the reach annulus.
C24_FailsOutsideAnnulus ==
    IsPointDone =>
        /\ result.error = "out of reach" <=> PointRadius > max_reach
        /\ result.error = "too close" <=> (PointRadius < min_reach /\ PointRadius <= max_reach)
        /\ result.error = "none" <=> (min_reach <= PointRadius /\ PointRadius <= max_reach)
        /\ result.reachable <=> result.error = "none"
        /\ "angles" \in DOMAIN result <=> result.error = "none"
        /\ Len(angle_list) = (IF result.error = "none" THEN 1 ELSE 0)
        /\ Len(error_log) = (IF result.error = "none" THEN 0 ELSE 1)

\* a point at full stretch: accepted, and converted to a pair
C24_Witness ==
    /\ IsPointDone
    /\ gcode_text.x = 0 /\ gcode_text.y = -max_reach
    /\ result.reachable
    /\ Len(angle_list) = 1

\* the tolerance of the round trip: 1e-3 inch in double arithmetic; with
\* MantBits bits kept, angles in degrees are a few degrees apart and the
\* round trip of a point is accurate to 2 inches
KinTolerance == 2 * Unit

\* C25: for every point with min_reach <= r <= max_reach,
\* forward_kinematics(inverse_kinematics(x, y)) is (x, y) within the
\* tolerance, for both elbow configurations, the origin included.
C25_ForwardOfInverse ==
    (IsPointDone /\ result.error = "none") =>
        /\ Abs(result.position[1] - gcode_text.x) <= KinTolerance
        /\ Abs(result.position[2] - gcode_text.y) <= KinTolerance

IsLineDone == pc = "done" /\ gcode_text.kind = "line"

\* n = max(2, floor(distance(start, end) * density))
C26_Segments ==
    IMax(2, FInt(FMul(Hypot(FSub(gcode_text.x_end, gcode_text.x_start),
                            FSub(gcode_text.y_end, gcode_text.y_start)),
                      FromInt(gcode_text.segments_per_inch))))

\* C26: interpolate_line returns n + 1 waypoints, n = max(2, floor(distance
\* * density)), at least 3; the first is the start, the last is the end,
\* and waypoint i is start + (i / n) * (end - start).
C26_LineWaypoints ==
    IsLineDone =>
        /\ Len(result.waypoints) = C26_Segments + 1
        /\ Len(result.waypoints) >= 3
        /\ result.waypoints[1] = <<gcode_text.x_start, gcode_text.y_start>>
        /\ LastOf(result.waypoints) = <<gcode_text.x_end, gcode_text.y_end>>
        /\ \A k \in 1..Len(result.waypoints) :
              result.waypoints[k] =
                  <<FAdd(gcode_text.x_start,
                         FMul(RndRat((k - 1) * Unit, C26_Segments),
                              FSub(gcode_text.x_end, gcode_text.x_start))),
                    FAdd(gcode_text.y_start,
                         FMul(RndRat((k - 1) * Unit, C26_Segments),
                              FSub(gcode_text.y_end, gcode_text.y_start)))>>

IsArcDone == pc = "done" /\ gcode_text.kind = "arc"

NonIncreasing(s) == \A k \in 1..(Len(s) - 1) : s[k + 1] <= s[k]

NonDecreasing(s) == \A k \in 1..(Len(s) - 1) : s[k + 1] >= s[k]

\* C27: a clockwise arc has sweep <= 0 and waypoint angles that do not
\* increase from start_angle to start_angle + sweep, a counter-clockwise
\* arc has sweep >= 0 and angles that do not decrease; |sweep| is at most
\* a full turn; the sweep is end_angle - start_angle, less a full turn when
\* clockwise and end_angle > start_angle, plus a full turn when
\* counter-clockwise and end_angle < start_angle.
C27_SweepDirection ==
    IsArcDone =>
        /\ gcode_text.clockwise => (result.sweep <= 0 /\ NonIncreasing(result.angles))
        /\ ~gcode_text.clockwise => (result.sweep >= 0 /\ NonDecreasing(result.angles))
        /\ Abs(result.sweep) <= TWO_PI
        /\ result.angles[1] = result.start_angle
        /\ LastOf(result.angles) = FAdd(result.start_angle, result.sweep)
        /\ Len(result.angles) = Len(result.waypoints)
        /\ result.sweep =
              IF gcode_text.clockwise /\ result.end_angle > result.start_angle
              THEN FSub(FSub(result.end_angle, result.start_angle), TWO_PI)
              ELSE IF ~gcode_text.clockwise /\ result.end_angle < result.start_angle
              THEN FAdd(FSub(result.end_angle, result.start_angle), TWO_PI)
              ELSE FSub(result.end_angle, result.start_angle)

\* a clockwise arc whose end angle is above its start angle: a full turn
\* was subtracted
C27_Witness ==
    /\ IsArcDone
    /\ gcode_text.clockwise
    /\ result.end_angle > result.start_angle
    /\ result.sweep < 0
    /\ Len(result.waypoints) > 5
    /\ result.angles[2] < result.angles[1]

\* a G2/G3 whose target is the point it starts from, about a center at
\* nonzero distance
IsFullCircle ==
    /\ IsArc
    /\ result.command = "MOVE_ARC"
    /\ current_pos = before.current_pos
    /\ result.center # <<before.current_pos.x, before.current_pos.y>>

\* the radius of the arc executed last
C28_Radius ==
    Hypot(FSub(before.current_pos.x, result.center[1]),
          FSub(before.current_pos.y, result.center[2]))

\* C28: a G2 or G3 whose target equals its start point, with a center at
\* nonzero distance, traces a full circle about the center: the waypoints
\* cover an arc of length 2 * pi * radius and leave the start point.
C28_FullCircle ==
    IsFullCircle =>
        /\ Len(result.waypoints) =
              IMax(4, FInt(FMul(FMul(C28_Radius, TWO_PI),
                                FromInt(ARC_SEGMENTS_PER_INCH)))) + 1
        /\ \E k \in 1..Len(result.waypoints) : result.waypoints[k] # result.waypoints[1]

\* a command line was executed and handled without an exception, its
\* parameters are finite and every waypoint of its result is in the reach
\* envelope
C29_InEnvelope(q) == min_reach <= Radius(q[1], q[2]) /\ Radius(q[1], q[2]) <= max_reach

C29_Waypoints == IF "waypoints" \in DOMAIN result' THEN result'.waypoints ELSE <<>>

C29_ReachableStep ==
    /\ CommandStep
    /\ result'.command # "raised"
    /\ \A k \in DOMAIN cmd'.params : IsFinite(cmd'.params[k])
    /\ \A k \in 1..Len(C29_Waypoints) : C29_InEnvelope(C29_Waypoints[k])

\* the pairs the result of the step adds: one per waypoint of a
\* MOVE_LINEAR, MOVE_ARC or HOME result, floor(2 * P) for a dwell with
\* P > 0, one for M2
C29_Added ==
    IF result'.command \in {"MOVE_LINEAR", "MOVE_ARC", "HOME"} THEN Len(C29_Waypoints)
    ELSE IF result'.command = "DWELL" /\ result'.duration > 0
    THEN FInt(FMul(result'.duration, FromInt(2)))
    ELSE IF result'.command = "END" THEN 1
    ELSE 0

C29_CountStep ==
    C29_ReachableStep =>
        /\ error_log' = error_log
        /\ Len(angle_list') = Len(angle_list) + C29_Added
        /\ SubSeq(angle_list', 1, Len(angle_list)) = angle_list

C29_HomeAtEnds ==
    /\ (pc = "loop" /\ line_num = 0) => (angle_list = <<HomePair>> /\ error_log = <<>>)
    /\ pc # "idle" => angle_list[1] = HomePair
    /\ (pc = "done" /\ M2Reached) => LastOf(angle_list) = HomePair

\* C29: when every waypoint of every move is in the reach envelope and all
\* parameters are finite, the error log stays empty and the actuator
\* sequence has 1 + (waypoints of all MOVE_LINEAR/MOVE_ARC/HOME results) +
\* (dwell repeats) + (1 if M2 was reached) elements; it starts with the
\* home pair and ends with it when M2 is reached.
C29_ReachableScript == []C29_HomeAtEnds /\ [][C29_CountStep]_vars

\* a move within reach followed by M2: nothing logged, one pair per
\* waypoint between the two home pairs
C29_Witness ==
    /\ pc = "done"
    /\ line_num = 2
    /\ M2Reached
    /\ script[1].command = "G0"
    /\ error_log = <<>>
    /\ Len(angle_list) > 3
    /\ angle_list[1] = HomePair
    /\ LastOf(angle_list) = HomePair

\* the entries of the log a step added for unreachable waypoints
C30_NewEntries ==
    {k \in (Len(error_log) + 1)..Len(error_log') : "x" \in DOMAIN error_log'[k]}

C30_EntryStep ==
    CommandStep =>
        \A k \in C30_NewEntries :
            /\ error_log'[k].line \in 1..Len(gcode_text)
            /\ gcode_text[error_log'[k].line] = cmd'

\* C30: each log entry for an unreachable waypoint carries the 1-based
\* number, in the text passed to process_gcode, of the line the waypoint
\* comes from, blank and comment-only lines counted, also when the text
\* begins with blank lines.
C30_LineNumberInText == [][C30_EntryStep]_vars

\* a command was executed: cmd is the command, before the parser before it
IsExecuted == cmd \notin {NoCall, ResetCall}

\* the parser before the command with one more command counted
C31_Counted == [before EXCEPT !.command_count = before.command_count + 1]

\* the frame of the commands that do not move
C31_NonMotion ==
    /\ command_count = before.command_count + 1
    /\ home_pos = before.home_pos
    /\ (cmd.command \in {"G4", "M2", "M6"} \/ cmd.command \notin KnownCodes) =>
           Parser = C31_Counted
    /\ cmd.command = "G20" => Parser = [C31_Counted EXCEPT !.units = "inches"]
    /\ cmd.command = "G21" => Parser = [C31_Counted EXCEPT !.units = "mm"]
    /\ cmd.command = "G90" => Parser = [C31_Counted EXCEPT !.absolute_mode = TRUE]
    /\ cmd.command = "G91" => Parser = [C31_Counted EXCEPT !.absolute_mode = FALSE]
    /\ cmd.command = "G92" => Parser = [C31_Counted EXCEPT !.offset = offset]

\* C31 as stated: G4, M2, M6 and unknown commands change nothing but
\* command_count, G20/G21 only units, G90/G91 only absolute_mode, G92 only
\* offset, home_position never changes, and current_position is changed
\* only by G0/G1/G2/G3 and by a G28 that has no parameter.
C31_FrameParameterless ==
    IsExecuted =>
        /\ C31_NonMotion
        /\ current_pos # before.current_pos =>
               \/ cmd.command \in {"G0", "G1", "G2", "G3"}
               \/ (cmd.command = "G28" /\ DOMAIN Params = {})

\* C31: the frame of the non-motion commands as C31_FrameParameterless
\* states it, current_position being changed only by G0/G1/G2/G3 and by a
\* G28 that has neither X nor Y (it may have other parameters).
C31_Frame ==
    IsExecuted =>
        /\ C31_NonMotion
        /\ current_pos # before.current_pos =>
               \/ cmd.command \in {"G0", "G1", "G2", "G3"}
               \/ IsPlainHome

\* G92 with X and Y executed away from home, mode, feed rate and units
\* changed before: the offset changes and nothing else
C31_Witness ==
    /\ cmd.command = "G92"
    /\ "X" \in DOMAIN Params
    /\ offset # before.offset
    /\ current_pos # [x |-> HOME_X, y |-> HOME_Y]
    /\ command_count = 3

\* a pass of the loop of process_gcode over a blank or comment line
C32_SkipStep ==
    /\ pc = "loop"
    /\ line_num' = line_num + 1
    /\ script[line_num'].raw = "" \/ script[line_num'].command = ";"

C32_Step ==
    /\ Parser' # Parser =>
           /\ CommandStep
           /\ cmd' = script[line_num']
           /\ command_count' = command_count + 1
    /\ C32_SkipStep =>
           /\ Parser' = Parser
           /\ angle_list' = angle_list
           /\ error_log' = error_log

\* C32: MachineState changes only when execute_command runs on a command
\* line (parse_line reads the line alone); a blank line and a line that
\* starts with ';' change neither MachineState, the actuator sequence nor
\* the error log.
C32_OnlyExecuteMutates == [][C32_Step]_vars

\* a comment line skipped after a command that changed the mode
C32_Witness ==
    /\ pc = "done"
    /\ line_num = 2
    /\ script[1].command = "G91"
    /\ script[2] = CommentLine
    /\ ~absolute_mode
    /\ command_count = 1
    /\ angle_list = <<HomePair>>

\* an arc was interpolated by the command executed last
IsArcMove == IsArc /\ result.command = "MOVE_ARC"

\* the start of the arc, and its end: the target the command resolves to
C33_Start == <<before.current_pos.x, before.current_pos.y>>

C33_End == <<C6_Target("X", "x"), C6_Target("Y", "y")>>

\* the distance of the point q from the center of the arc
C33_Distance(q) == Hypot(FSub(q[1], result.center[1]), FSub(q[2], result.center[2]))

C33_Radius == C33_Distance(C33_Start)

\* the angle of the point q about the center
C33_Angle(q) == FAtan2(FSub(q[2], result.center[2]), FSub(q[1], result.center[1]))

C33_Sweep == ArcSweep(C33_Angle(C33_Start), C33_Angle(C33_End), result.clockwise)

\* what two points computed with cos and sin may differ by: a quarter of
\* an inch with MantBits bits kept (rounding to nearest, in double arithmetic)
C33_Tolerance == Unit \div 4

C33_Near(q, r) ==
    /\ Abs(q[1] - r[1]) <= C33_Tolerance
    /\ Abs(q[2] - r[2]) <= C33_Tolerance

\* the end is not at the distance of the start from the center
C33_Inconsistent == Abs(C33_Distance(C33_End) - C33_Radius) > 4 * C33_Tolerance

C33_WitnessInconsistent ==
    /\ IsArcMove
    /\ C33_Radius > 0
    /\ C33_Inconsistent
    /\ Len(result.waypoints) > 5
    /\ LastOf(result.waypoints) # <<current_pos.x, current_pos.y>>

\* how often the command was repeated
C34_Times == command_count - before.command_count

\* the move names no target of its own: it has neither X nor Y, or it is
\* incremental with X0 Y0
C34_NoTarget ==
    /\ cmd.command \in {"G0", "G1", "G2", "G3"}
    /\ \/ "X" \notin DOMAIN Params /\ "Y" \notin DOMAIN Params
       \/ /\ ~before.absolute_mode
          /\ {"X", "Y"} \subseteq DOMAIN Params
          /\ Params["X"] = 0 /\ Params["Y"] = 0

\* v less d, n times
RECURSIVE C34_Less(_, _, _)
C34_Less(v, d, n) == IF n = 0 THEN v ELSE C34_Less(FSub(v, d), d, n - 1)

\* C34: with a nonzero G92 offset a G0/G1/G2/G3 without X and Y (in either
\* mode), or an incremental one with X0 Y0, moves current_position by
\* -offset, and n repetitions move it by -n * offset; with offset (0, 0)
\* the position stays.
C34_DriftByOffset ==
    C34_NoTarget =>
        /\ offset = before.offset
        /\ current_pos.x = C34_Less(before.current_pos.x, before.offset.x, C34_Times)
        /\ current_pos.y = C34_Less(before.current_pos.y, before.offset.y, C34_Times)
        /\ current_pos.x = before.current_pos.x - C34_Times * before.offset.x
        /\ current_pos.y = before.current_pos.y - C34_Times * before.offset.y
        /\ before.offset # [x |-> 0, y |-> 0] => current_pos # before.current_pos
        /\ before.offset = [x |-> 0, y |-> 0] => current_pos = before.current_pos

\* an incremental G1 X0 Y0 executed three times with the offset (1, -2)
C34_Witness ==
    /\ C34_NoTarget
    /\ cmd.command = "G1" /\ "X" \in DOMAIN Params
    /\ ~before.absolute_mode
    /\ before.offset = [x |-> FromInt(1), y |-> FromInt(-2)]
    /\ C34_Times = 3
    /\ current_pos.x = before.current_pos.x - FromInt(3)
    /\ current_pos.y = before.current_pos.y + FromInt(6)

\* a pass of the loop over a line whose result has waypoints
C35_Step ==
    /\ CommandStep
    /\ result'.command \in {"MOVE_LINEAR", "MOVE_ARC", "HOME"}
    /\ "waypoints" \in DOMAIN result'

C35_InReach(q) == is_reachable(q[1], q[2])

C35_OutOfReach(q) == ~is_reachable(q[1], q[2])

\* the waypoints of the line within reach, and those out of reach, in order
C35_Good == SelectSeq(result'.waypoints, C35_InReach)

C35_Bad == SelectSeq(result'.waypoints, C35_OutOfReach)

C35_Effect ==
    /\ Len(error_log') = Len(error_log) + Len(C35_Bad)
    /\ SubSeq(error_log', 1, Len(error_log)) = error_log
    /\ \A k \in 1..Len(C35_Bad) :
          /\ error_log'[Len(error_log) + k].line = line_num'
          /\ error_log'[Len(error_log) + k].x = Fmt2(C35_Bad[k][1])
          /\ error_log'[Len(error_log) + k].y = Fmt2(C35_Bad[k][2])
    /\ Len(angle_list') = Len(angle_list) + Len(C35_Good)
    /\ SubSeq(angle_list', 1, Len(angle_list)) = angle_list
    /\ \A k \in 1..Len(C35_Good) :
          angle_list'[Len(angle_list) + k] = ServoPair(C35_Good[k][1], C35_Good[k][2])

\* C35: the log gets one entry per unreachable waypoint, not one per line:
\* a move line with k waypoints out of reach adds k entries, all with the
\* number of that line, and the waypoints of the line within reach, before
\* and after the unreachable ones, give their pairs in order.
C35_EntryPerWaypoint == [][C35_Step => C35_Effect]_vars

\* an arc that leaves the reach envelope and comes back: waypoints within
\* reach before and after those out of reach, several entries for line 1
C35_Witness ==
    /\ line_num = 1
    /\ result.command = "MOVE_ARC"
    /\ Len(error_log) >= 2
    /\ \A k \in 1..Len(error_log) : error_log[k].line = 1
    /\ \E i \in 1..Len(result.waypoints) :
          /\ ~is_reachable(result.waypoints[i][1], result.waypoints[i][2])
          /\ \E j \in 1..(i - 1) :
                is_reachable(result.waypoints[j][1], result.waypoints[j][2])
          /\ \E j \in (i + 1)..Len(result.waypoints) :
                is_reachable(result.waypoints[j][1], result.waypoints[j][2])
    /\ Len(angle_list) + Len(error_log) = 1 + Len(result.waypoints)

\* what process_gcode returned: the actuator sequence and the error log
C36_Output == [angles |-> angle_list, log |-> error_log]

\* what process_gcode returns for the text on an exporter whose parser is p
C36_OutputOf(p, text) ==
    [angles |-> process_gcode(p, text).angles, log |-> process_gcode(p, text).log]

\* a script whose output tells a parser in another mode, with another
\* offset or at another position from a new one
C36_Probe == <<Cmd("G0", ("X" :> FromInt(4) @@ "Y" :> FromInt(4)), "G0 X4 Y4")>>

\* the fields of MachineState the output depends on are as constructed
C36_AsNewForOutput(p) ==
    /\ p.absolute_mode = NewParser.absolute_mode
    /\ p.offset = NewParser.offset
    /\ p.current_pos = NewParser.current_pos

\* the call starts: the lists are cleared, the parser is left as it is
C36_Entry ==
    (pc' = "loop" /\ line_num' = 0 /\ pc # "loop") =>
        /\ Parser' = Parser
        /\ before' = Parser
        /\ angle_list' = <<HomePair>>
        /\ error_log' = <<>>

\* the call returned: before is the parser at entry
C36_Returned ==
    pc = "done" =>
        /\ C36_Output = C36_OutputOf(before, gcode_text)
        /\ Parser = process_gcode(before, gcode_text).parser
        /\ C36_AsNewForOutput(before) =>
               C36_Output = C36_OutputOf(NewParser, gcode_text)
        /\ ~C36_AsNewForOutput(before) =>
               C36_OutputOf(before, C36_Probe) # C36_OutputOf(NewParser, C36_Probe)

\* C36 as stated: the output of a call equals the output of a new exporter
\* (for every script) only if the call before left MachineState as
\* constructed apart from command_count.
C36_OnlyIfDefaults ==
    pc = "done" =>
        ((\A text \in AgainTexts \cup {C36_Probe} :
              C36_OutputOf(before, text) = C36_OutputOf(NewParser, text))
         => before = [NewParser EXCEPT !.command_count = before.command_count])

\* C36: process_gcode clears the actuator sequence and the error log at
\* entry and leaves the parser as the call before left it (also one cut
\* short by M2); the output is a function of the script and the parser at
\* entry, and it is the output of a new exporter for every script exactly
\* when mode, offset and position at entry are as constructed (units, feed
\* rate and command_count have no influence on it).
C36_SecondCall == []C36_Returned /\ [][C36_Entry]_vars

\* a second call after a script cut short by M2 at (4, 4): the output is
\* not that of a new exporter
C36_Witness ==
    /\ pc = "done"
    /\ before.command_count = 2
    /\ before.current_pos = [x |-> FromInt(4), y |-> FromInt(4)]
    /\ Len(script) = 2
    /\ script[2].command = "M2"
    /\ C36_Output # C36_OutputOf(NewParser, gcode_text)
    /\ command_count = 4

\* gcode_to_sd_card returns
C37_Return == pc = "done" /\ pc' = "returned"

C37_Effect ==
    /\ result'.success <=>
           (error_log = <<>> /\ result'.file = FileWith(angle_list, Len(angle_list)))
    /\ result'.success =>
           /\ result'.filepath = SD_OUTPUT_FILE
           /\ result'.errors = <<>>
           /\ Len(result'.file.lines) = Len(angle_list)
    /\ ~result'.success => (result'.filepath = NoPath /\ result'.errors # <<>>)
    /\ error_log # <<>> =>
           /\ result' = CardResult(FALSE, NoPath, error_log, NoFile)
           /\ angle_list # <<>>
           /\ angle_list' = angle_list

\* C37: gcode_to_sd_card reports success, with the whole file written,
\* only if process_gcode logged nothing and the write succeeded; when the
\* log has an entry it returns (False, None, errors) and writes no file,
\* although a non-empty actuator sequence was produced.
C37_AllOrNothing == [][C37_Return => C37_Effect]_vars

\* a script with waypoints out of reach: pairs were produced, nothing is
\* written
C37_Witness ==
    /\ pc = "returned"
    /\ ~result.success
    /\ result.filepath = NoPath
    /\ result.file = NoFile
    /\ Len(result.errors) >= 2
    /\ Len(angle_list) >= 2

\* inverse_kinematics returned or raised for an arm with links L1 and L2
IsArmDone == pc = "done" /\ gcode_text.kind = "arm"

C38_Radius == Radius(gcode_text.x, gcode_text.y)

C38_MinReach == Abs(FSub(gcode_text.L1, gcode_text.L2))

C38_MaxReach == FAdd(gcode_text.L1, gcode_text.L2)

\* r is below the epsilon of 0.001
C38_BelowEpsilon == C38_Radius * 1000 < Unit

\* C38: in inverse_kinematics the reach checks come before the case of the
\* origin: a point with r below 0.001 gives (0, 0) only when min_reach <=
\* r (as with L1 = L2); with L1 # L2 (min_reach above 0.001) the origin
\* fails as too close.  With L1 = L2 nothing is too close.
C38_ReachChecksFirst ==
    IsArmDone =>
        /\ result.outcome = "origin" <=> (C38_BelowEpsilon /\ C38_MinReach <= C38_Radius)
        /\ (C38_BelowEpsilon /\ C38_MinReach * 1000 > Unit) => result.outcome = "too close"
        /\ gcode_text.L1 = gcode_text.L2 => result.outcome # "too close"
        /\ result.outcome = "out of reach" <=> C38_Radius > C38_MaxReach
        /\ result.outcome = "too close" <=>
               (C38_Radius <= C38_MaxReach /\ C38_Radius < C38_MinReach)

\* the origin asked of an arm with links of 6 and 5.5: too close
C38_Witness ==
    /\ IsArmDone
    /\ gcode_text.x = 0 /\ gcode_text.y = 0
    /\ gcode_text.L1 # gcode_text.L2
    /\ C38_MinReach < Unit
    /\ result.outcome = "too close"
====
